---------------------------- MODULE Spec2Model ----------------------------
(***************************************************************************)
(* A model of the FreeCAD MCP addon and tool server (amywork777/aicad-mcp). *)
(*                                                                         *)
(*   Spec         the Task Bridge, the RPC server lifecycle and the RPC    *)
(*                handler methods, with the GUI thread, the RPC serving    *)
(*                thread and a chat worker thread as separate processes    *)
(*   SpecChat     the tool-calling loop of FreeCADAI.run                   *)
(*   SpecDFM      the DFM checkers, their highlighting and                 *)
(*                restore_colors_after_check                               *)
(*   SpecSends    several sends in flight on one chat client               *)
(*   SpecScratch  SpecDFM with delete_object calls on scratch objects      *)
(*   SpecHandler  the DFM checks made through one handler, run after run   *)
(*   SpecClearance  the loops of TDPDFMChecker.check_clearances            *)
(*   SpecWall     DFMChecker.check_wall_thickness on one face              *)
(*   SpecConnection  get_freecad_connection of the tool server             *)
(*   SpecCost     CostEstimator.estimate_cost                              *)
(*   SpecWorkbench  Activated and Deactivated of the workbench             *)
(*   SpecFixer    the automatic fix functions of the tool server           *)
(*   SpecFeatures the feature tree of AdvancedCADOperations                *)
(*   SpecLayout   EnhancedSpatialFramework.optimize_layout                 *)
(*   SpecValidation  DesignValidationSystem.validate_design                *)
(*   SpecObjects  create_object, edit_object, delete_object of the handler *)
(*   SpecBoot     the entry bootstrap mcp-server.py                        *)
(*   SpecTolerance  ToleranceCalculator.calculate_tolerance                *)
(*                                                                         *)
(* Every specification ranges over the same variables; a specification     *)
(* leaves the variables of the other subsystems at their initial values.   *)
(***************************************************************************)
EXTENDS Integers, Sequences, FiniteSets, TLC

VARIABLES
    \* ---- core/task_queue.py, core/rpc_proxy.py, core/rpc_server.py ----
    rpc_request_queue,    \* queue.Queue of zero-argument callables
    rpc_response_queue,   \* queue.Queue of results
    rpc_server_instance,  \* the listener global: TRUE when not None
    rpc_server_thread,    \* the serving-thread global: TRUE when not None
    shutdown_request,     \* the listener's shutdown flag, set by shutdown()
    timer_pending,        \* QTimer.singleShot(500, process_gui_tasks) calls not yet fired
    gui_pc,               \* where the GUI thread is
    pc,                   \* where each thread that calls handler methods is
    ret,                  \* what the last handler call of each thread got from the bridge
    invoked,              \* what became of the closure each thread last enqueued
    lifecycle_msg,        \* the string the last start/stop call returned
    documents,            \* the CAD host's open documents (App.listDocuments())
    host_api_threads,     \* the threads that have called the CAD host's API
    \* ---- core/client.py ----
    messages,             \* FreeCADAI.messages
    max_turns,            \* FreeCADAI.max_turns
    turn,                 \* the local "turn" of run
    chat_pc,              \* where run is
    tool_calls,           \* message.tool_calls of the current turn
    call_idx,             \* the position of the for-loop over tool_calls
    completions,          \* completion requests issued by the current run
    next_id,              \* the next tool-call id the LLM hands out
    sends,                \* where each AsyncWorker of the chat widget is in its run call
    \* ---- dfm/tdp_check3.py (check_clearances) ----
    clearance,            \* the clearance loops of one run of the 3D-printing checker
    \* ---- dfm/base_checker.py (check_wall_thickness) ----
    wall,                 \* the sampling of one face by check_wall_thickness
    \* ---- src/freecad_mcp/server.py (the host connection) ----
    connection,           \* _freecad_connection and what the calls on it came to
    \* ---- src/freecad_mcp/manufacturing_framework.py (CostEstimator) ----
    cost_result,          \* what the last estimate_cost call returned
    \* ---- InitGui.py ----
    workbench,            \* the TaiyakiAIWorkbench instance and the main window's docks
    \* ---- src/freecad_mcp/server.py (the automatic fixes) ----
    fixer,                \* one call of an _apply_*_fixes function and its connection
    \* ---- core/rpc_handler.py (DFM methods), dfm/*.py ----
    doc_objects,          \* doc.Objects of the checked document, in document order
    view,                 \* the ViewObject properties of each object of the document
    colors_storage,       \* FreeCADRPC.colors_storage (document name -> original_colors)
    additional_objects,   \* FreeCADRPC.additional_objects (document name -> names)
    checker,              \* the checker instance of the run in progress
    dfm_result,           \* what the last finished DFM call returned
    dfm_trace,            \* the runs so far, whether the last one highlighted, the restores since
    \* ---- src/freecad_mcp/advanced_cad_operations.py ----
    features,             \* AdvancedCADOperations.features, in insertion order
    feature_tree,         \* AdvancedCADOperations.feature_tree
    analysis,             \* what the last analyze_feature_dependencies returned
    \* ---- src/freecad_mcp/enhanced_spatial_framework.py ----
    objects,              \* EnhancedSpatialFramework.objects
    constraints,          \* EnhancedSpatialFramework.constraints
    optimization_results, \* what the last optimize_layout returned
    \* ---- src/freecad_mcp/design_validation_system.py ----
    validation_result,    \* what the last validate_design returned
    \* ---- core/rpc_handler.py (object methods) ----
    cad_objects,          \* the names of the objects of the document "Part"
    object_result,        \* what the last create/edit/delete_object returned
    \* ---- mcp-server.py ----
    boot_env,             \* what the bootstrap process finds on the machine
    boot_pc,              \* where the bootstrap process is
    main_return,          \* the value main() returned, once it has returned
    exit_status,          \* the exit status of the process, once it has ended
    \* ---- src/freecad_mcp/manufacturing_framework.py ----
    tolerance_result      \* the last calculate_tolerance call and its value

bridgeVars == <<rpc_request_queue, rpc_response_queue, rpc_server_instance,
                rpc_server_thread, shutdown_request, timer_pending, gui_pc, pc,
                ret, invoked, lifecycle_msg, documents, host_api_threads>>
chatVars == <<messages, max_turns, turn, chat_pc, tool_calls, call_idx,
              completions, next_id>>
dfmVars == <<doc_objects, view, colors_storage, additional_objects, checker,
             dfm_result, dfm_trace>>
featureVars == <<features, feature_tree, analysis>>
layoutVars == <<objects, constraints, optimization_results>>
validationVars == <<validation_result>>
objectVars == <<cad_objects, object_result>>
bootVars == <<boot_env, boot_pc, main_return, exit_status>>
toleranceVars == <<tolerance_result>>
sendVars == <<sends>>
clearanceVars == <<clearance>>
wallVars == <<wall>>
connectionVars == <<connection>>
costVars == <<cost_result>>
workbenchVars == <<workbench>>
fixerVars == <<fixer>>
extraVars == <<sendVars, clearanceVars, wallVars, connectionVars, costVars,
               workbenchVars, fixerVars>>
vars == <<bridgeVars, chatVars, dfmVars, featureVars, layoutVars, validationVars,
          objectVars, bootVars, toleranceVars, extraVars>>
\* What the actions of one subsystem leave alone.
otherVars == <<validationVars, objectVars, bootVars, toleranceVars, extraVars>>
notBridge == <<chatVars, dfmVars, featureVars, layoutVars, otherVars>>
notChat == <<bridgeVars, dfmVars, featureVars, layoutVars, otherVars>>
notDFM == <<bridgeVars, chatVars, featureVars, layoutVars, otherVars>>
notFeatures == <<bridgeVars, chatVars, dfmVars, layoutVars, otherVars>>
notLayout == <<bridgeVars, chatVars, dfmVars, featureVars, otherVars>>
firstVars == <<bridgeVars, chatVars, dfmVars, featureVars, layoutVars>>
notValidation == <<firstVars, objectVars, bootVars, toleranceVars, extraVars>>
notObjects == <<firstVars, validationVars, bootVars, toleranceVars, extraVars>>
notBoot == <<firstVars, validationVars, objectVars, toleranceVars, extraVars>>
notTolerance == <<firstVars, validationVars, objectVars, bootVars, extraVars>>
baseVars == <<firstVars, validationVars, objectVars, bootVars, toleranceVars>>
lateVars == <<costVars, workbenchVars, fixerVars>>
notClearance == <<baseVars, sendVars, wallVars, connectionVars, lateVars>>
notWall == <<baseVars, sendVars, clearanceVars, connectionVars, lateVars>>
notConnection == <<baseVars, sendVars, clearanceVars, wallVars, lateVars>>
earlyVars == <<baseVars, sendVars, clearanceVars, wallVars, connectionVars>>
notCost == <<earlyVars, workbenchVars, fixerVars>>
notWorkbench == <<earlyVars, costVars, fixerVars>>
notFixer == <<earlyVars, costVars, workbenchVars>>

\* ------------------------------------------------------------------------
\* Bounds of the model
\* ------------------------------------------------------------------------
MaxTimers == 2
\* The largest max_iterations the persisted settings hold.
MaxTurns == 2
\* The most tool calls one assistant message carries.
MaxCalls == 2
\* The most scratch objects (parting planes, clearance lines) a document holds.
MaxScratch == 2
\* The most issues one checker run records.
MaxIssues == 2
\* The most checker runs on the document.
MaxRuns == 1
\* The largest max_iterations of a client with several sends in flight.
MaxSendTurns == 1
\* The most parts of a document checked for clearances.
MaxParts == 5
\* The most point pairs distToShape returns for two parts.
MaxPointPairs == 6
\* The most edges, and the most vertices, of a sampled face.
MaxFacePoints == 2
\* The largest extent of a face's parameter range, in whole units.
MaxRange == 3
\* The most get_freecad_connection calls of one server process.
MaxGets == 8
\* The largest part volume, in cm3, and the largest quantity of an estimate.
MaxVolume == 3
MaxQuantity == 3
\* The most dock widgets the workbench creates.
MaxDocks == 7
\* The most object dictionaries handed to one fix function.
MaxFixObjects == 3
\* The DFM checks made through one handler before the final restore.
MaxHandlerRuns == 2
\* The most edges one fillet is created on.
MaxEdges == 1
\* The most feature creations (the length of feature_tree).
MaxTree == 5
\* The most constraints added to the framework.
MaxConstraints == 2
\* The most issues of one severity the validators report on one design.
MaxPerSeverity == 3

\* ------------------------------------------------------------------------
\* Task Bridge, RPC server, RPC handler
\* ------------------------------------------------------------------------
Callers == {"rpc", "chat"}
DocNames == {"d1"}
\* A document name XML-RPC can deliver that App.newDocument rejects (not a string).
BadName == "<int>"
ViewNames == {"Isometric", "Bogus"}

\* Handler methods whose body is a closure handed to RPCProxy.run.
BridgedMethods == {"create_document", "get_active_screenshot", "execute_code"}
\* Handler methods whose body calls the CAD host on the calling thread.
DirectMethods == {"list_documents", "get_objects", "get_object"}

ArgsOf(m) ==
    CASE m = "create_document" -> DocNames \cup {BadName}
      [] m = "get_active_screenshot" -> ViewNames
      [] m = "execute_code" -> {"code"}
      [] OTHER -> {""}

NoResult == [kind |-> "nothing", src |-> "nobody"]

\* What the closure of a bridged handler method does when the GUI thread calls it:
\* "value" (a result that is not None), "none" (it returns None) or "raise".
TaskOutcome(task, docs) ==
    CASE task.method = "create_document" ->
            IF task.arg = BadName THEN "raise" ELSE "value"
      [] task.method = "get_active_screenshot" ->
            IF docs = {} THEN "none"
            ELSE IF task.arg = "Isometric" THEN "value" ELSE "raise"
      [] OTHER -> "value"

\* The documents after the closure ran.
TaskDocuments(task, docs) ==
    IF task.method = "create_document" /\ task.arg # BadName
    THEN docs \cup {task.arg} ELSE docs

BridgeInit ==
    /\ rpc_request_queue = <<>>
    /\ rpc_response_queue = <<>>
    /\ rpc_server_instance = FALSE
    /\ rpc_server_thread = FALSE
    /\ shutdown_request = FALSE
    /\ timer_pending = 0
    /\ gui_pc = "idle"
    /\ pc = [c \in Callers |-> IF c = "rpc" THEN "absent" ELSE "idle"]
    /\ ret = [c \in Callers |-> NoResult]
    /\ invoked = [c \in Callers |-> "no"]
    /\ lifecycle_msg = ""
    /\ documents = {}
    /\ host_api_threads = {}

\* A test that never sees a listener.
ListenerExists_Never == FALSE

\* "if rpc_server_instance:" of start_rpc_server and stop_rpc_server
ListenerExists == rpc_server_instance

\* start_rpc_server, called on the GUI thread (TaiyakiAIWorkbench.Activated).
start_rpc_server ==
    /\ gui_pc = "idle"
    /\ IF ListenerExists
       THEN /\ lifecycle_msg' = "RPC Server already running."
            /\ UNCHANGED <<rpc_server_instance, rpc_server_thread, shutdown_request,
                           timer_pending, pc>>
       ELSE /\ timer_pending < MaxTimers
            /\ rpc_server_instance' = TRUE
            /\ rpc_server_thread' = TRUE
            /\ shutdown_request' = FALSE
            /\ pc' = [pc EXCEPT !["rpc"] = "serve"]
            /\ timer_pending' = timer_pending + 1
            /\ lifecycle_msg' = "RPC Server started."
    /\ UNCHANGED <<rpc_request_queue, rpc_response_queue, gui_pc, ret, invoked,
                   documents, host_api_threads, notBridge>>

\* stop_rpc_server up to rpc_server_instance.shutdown(): the GUI thread sets the
\* listener's shutdown flag and waits for the serve loop to leave.
stop_rpc_server_begin ==
    /\ gui_pc = "idle"
    /\ IF ListenerExists
       THEN /\ shutdown_request' = TRUE
            /\ gui_pc' = "shutdown"
            /\ UNCHANGED lifecycle_msg
       ELSE /\ lifecycle_msg' = "RPC Server was not running."
            /\ UNCHANGED <<shutdown_request, gui_pc>>
    /\ UNCHANGED <<rpc_request_queue, rpc_response_queue, rpc_server_instance,
                   rpc_server_thread, timer_pending, pc, ret, invoked, documents,
                   host_api_threads, notBridge>>

\* serve_forever sees the shutdown flag between two requests and returns.
serve_loop_exit ==
    /\ pc["rpc"] = "serve"
    /\ shutdown_request
    /\ pc' = [pc EXCEPT !["rpc"] = "exited"]
    /\ UNCHANGED <<rpc_request_queue, rpc_response_queue, rpc_server_instance,
                   rpc_server_thread, shutdown_request, timer_pending, gui_pc, ret,
                   invoked, lifecycle_msg, documents, host_api_threads, notBridge>>

\* The rest of stop_rpc_server: shutdown() and join() return once the serving
\* thread has left its loop; both globals are cleared.
stop_rpc_server_end ==
    /\ gui_pc = "shutdown"
    /\ pc["rpc"] = "exited"
    /\ rpc_server_instance' = FALSE
    /\ rpc_server_thread' = FALSE
    /\ pc' = [pc EXCEPT !["rpc"] = "absent"]
    /\ gui_pc' = "idle"
    /\ lifecycle_msg' = "RPC Server stopped."
    /\ UNCHANGED <<rpc_request_queue, rpc_response_queue, shutdown_request,
                   timer_pending, ret, invoked, documents, host_api_threads,
                   notBridge>>

\* A thread may enter a handler method: the serving thread when it sits in its
\* loop with no shutdown requested, a chat worker when it is not inside a call.
CanCall(c) ==
    IF c = "rpc" THEN pc[c] = "serve" /\ ~shutdown_request ELSE pc[c] = "idle"

\* RPCProxy.run up to its blocking get: the closure is put on the request queue.
RPCProxy_run_put(c, m, a) ==
    /\ rpc_request_queue' = Append(rpc_request_queue,
                                   [caller |-> c, method |-> m, arg |-> a])
    /\ pc' = [pc EXCEPT ![c] = "waiting"]
    /\ invoked' = [invoked EXCEPT ![c] = "no"]

\* A handler method whose body is "return self.proxy.run(task)".
bridged_call(c) ==
    /\ CanCall(c)
    /\ \E m \in BridgedMethods : \E a \in ArgsOf(m) : RPCProxy_run_put(c, m, a)
    /\ UNCHANGED <<rpc_response_queue, rpc_server_instance, rpc_server_thread,
                   shutdown_request, timer_pending, gui_pc, ret, lifecycle_msg,
                   documents, host_api_threads, notBridge>>

\* list_documents, get_objects, get_object: App.listDocuments / App.getDocument
\* are called by the thread that runs the handler method.
direct_call(c) ==
    /\ CanCall(c)
    /\ \E m \in DirectMethods : \E a \in ArgsOf(m) :
          ret' = [ret EXCEPT ![c] = [kind |-> "value", src |-> c]]
    /\ host_api_threads' = host_api_threads \cup {c}
    /\ UNCHANGED <<rpc_request_queue, rpc_response_queue, rpc_server_instance,
                   rpc_server_thread, shutdown_request, timer_pending, gui_pc, pc,
                   invoked, lifecycle_msg, documents, notBridge>>

\* A get that hands a caller the first response made for its own request.
RPCProxy_run_get_Correlated(c) ==
    /\ pc[c] = "waiting"
    /\ \E i \in 1..Len(rpc_response_queue) :
          /\ rpc_response_queue[i].src = c
          /\ \A j \in 1..(i - 1) : rpc_response_queue[j].src # c
          /\ ret' = [ret EXCEPT ![c] = rpc_response_queue[i]]
          /\ rpc_response_queue' =
                SubSeq(rpc_response_queue, 1, i - 1)
                    \o SubSeq(rpc_response_queue, i + 1, Len(rpc_response_queue))
    /\ pc' = [pc EXCEPT ![c] = IF c = "rpc" THEN "serve" ELSE "idle"]
    /\ UNCHANGED <<rpc_request_queue, rpc_server_instance, rpc_server_thread,
                   shutdown_request, timer_pending, gui_pc, invoked, lifecycle_msg,
                   documents, host_api_threads, notBridge>>

\* The blocking self.response.get() of RPCProxy.run returns the head of the
\* response queue to whichever caller is waiting.
RPCProxy_run_get(c) ==
    /\ pc[c] = "waiting"
    /\ rpc_response_queue # <<>>
    /\ ret' = [ret EXCEPT ![c] = Head(rpc_response_queue)]
    /\ rpc_response_queue' = Tail(rpc_response_queue)
    /\ pc' = [pc EXCEPT ![c] = IF c = "rpc" THEN "serve" ELSE "idle"]
    /\ UNCHANGED <<rpc_request_queue, rpc_server_instance, rpc_server_thread,
                   shutdown_request, timer_pending, gui_pc, invoked, lifecycle_msg,
                   documents, host_api_threads, notBridge>>

\* A pending single-shot timer fires: the GUI thread enters process_gui_tasks.
process_gui_tasks_enter ==
    /\ gui_pc = "idle"
    /\ timer_pending > 0
    /\ timer_pending' = timer_pending - 1
    /\ gui_pc' = "draining"
    /\ UNCHANGED <<rpc_request_queue, rpc_response_queue, rpc_server_instance,
                   rpc_server_thread, shutdown_request, pc, ret, invoked,
                   lifecycle_msg, documents, host_api_threads, notBridge>>

\* What process_gui_tasks does with the result of one task.
\* res = task(); if res is not None: rpc_response_queue.put(res)
PutResponse(queue, task, outcome) ==
    IF outcome = "value"
    THEN Append(queue, [kind |-> "value", src |-> task.caller])
    ELSE queue

\* One iteration of the while loop of process_gui_tasks. An exception of the
\* task leaves the function: the rest of the queue stays and the timer is not
\* re-armed.
process_gui_tasks_step ==
    /\ gui_pc = "draining"
    /\ rpc_request_queue # <<>>
    /\ LET task == Head(rpc_request_queue)
           outcome == TaskOutcome(task, documents)
       IN /\ rpc_request_queue' = Tail(rpc_request_queue)
          /\ documents' = TaskDocuments(task, documents)
          /\ host_api_threads' = host_api_threads \cup {"gui"}
          /\ rpc_response_queue' = PutResponse(rpc_response_queue, task, outcome)
          /\ invoked' = [invoked EXCEPT ![task.caller] = outcome]
          /\ gui_pc' = IF outcome = "raise" THEN "idle" ELSE "draining"
    /\ UNCHANGED <<rpc_server_instance, rpc_server_thread, shutdown_request,
                   timer_pending, pc, ret, lifecycle_msg, notBridge>>

\* The request queue is empty: QTimer.singleShot(500, process_gui_tasks).
process_gui_tasks_rearm ==
    /\ gui_pc = "draining"
    /\ rpc_request_queue = <<>>
    /\ timer_pending' = timer_pending + 1
    /\ gui_pc' = "idle"
    /\ UNCHANGED <<rpc_request_queue, rpc_response_queue, rpc_server_instance,
                   rpc_server_thread, shutdown_request, pc, ret, invoked,
                   lifecycle_msg, documents, host_api_threads, notBridge>>

ChatInit ==
    /\ messages = <<>>
    /\ max_turns = 0
    /\ turn = 0
    /\ chat_pc = "idle"
    /\ tool_calls = <<>>
    /\ call_idx = 0
    /\ completions = 0
    /\ next_id = 0

\* The name of an object of the document: the name asked for ("base" and, for
\* clearance lines, the index k that is part of it) and the suffix n the host
\* appends to keep names unique.
Name(base, k, n) == [base |-> base, k |-> k, n |-> n]

\* The parts under analysis.
Box == Name("Box", 0, 0)
Pad == Name("Pad", 0, 0)
Parts == <<Box, Pad>>

\* The ViewObject of a new object: DiffuseColor is one entry, the shape colour.
ViewOf(shape_color, line_color, line_width, faces) ==
    [shape_color |-> shape_color, diffuse_color |-> <<shape_color>>,
     line_color |-> line_color, line_width |-> line_width, faces |-> faces]

EmptyDict == [x \in {} |-> x]
NoChecker == [kind |-> "none"]
\* The tunables of a checker the model looks at: lengths in tenths of a
\* millimetre, angles in degrees.
Params(process_type, min_clearance, max_overhang_angle) ==
    [process_type |-> process_type, min_clearance |-> min_clearance,
     max_overhang_angle |-> max_overhang_angle]
NoParams == Params("none", 0, 0)

NoDfmResult ==
    [op |-> "none", kind |-> "none", success |-> TRUE, issues |-> {},
     message |-> "", raised |-> FALSE, found |-> 0, params |-> NoParams,
     objects |-> <<>>]

\* A document holding the visible parts; the handler's caches are empty.
DFMInit ==
    /\ doc_objects = Parts
    /\ view = [o \in {Box, Pad} |-> ViewOf("grey", "black", 2, 1)]
    /\ colors_storage = EmptyDict
    /\ additional_objects = EmptyDict
    /\ checker = NoChecker
    /\ dfm_result = NoDfmResult
    /\ dfm_trace = [highlighted |-> FALSE, restores |-> 0, runs |-> 0]

NoAnalysis ==
    [valid |-> FALSE, circular_references |-> <<>>, orphaned_features |-> <<>>,
     dependency_depth |-> <<>>, error |-> FALSE]

\* AdvancedCADOperations.__init__: no features yet.
FeaturesInit ==
    /\ features = <<>>
    /\ feature_tree = <<>>
    /\ analysis = NoAnalysis

\* A score as the quotient num / den of two integers, den > 0.
Score(num, den) == [num |-> num, den |-> den]

NoOptimization ==
    [valid |-> FALSE, initial_score |-> Score(0, 1), final_score |-> Score(0, 1),
     iterations |-> 0, final_positions |-> <<>>, error |-> FALSE]

\* EnhancedSpatialFramework.__init__ and the optimization_results a run of
\* optimize_layout starts from.
LayoutInit ==
    /\ objects = <<>>
    /\ constraints = <<>>
    /\ optimization_results = NoOptimization

\* No validate_design call has returned yet.
NoValidation ==
    [valid |-> FALSE, overall_score |-> 0, total_issues |-> 0,
     issues_by_severity |-> EmptyDict, failed |-> FALSE]

ValidationInit == validation_result = NoValidation

\* A Python value of a result field, as far as its truth value goes.
PyBool(b) == [type |-> "bool", value |-> IF b THEN "True" ELSE "False"]
PyStr(str) == [type |-> "str", value |-> str]
Truthy(v) == IF v.type = "bool" THEN v.value = "True" ELSE v.value # ""

NoObjectResult ==
    [op |-> "none", success |-> PyBool(TRUE), failed |-> FALSE]

\* An empty document "Part"; no object method has returned yet.
ObjectsInit ==
    /\ cad_objects = {}
    /\ object_result = NoObjectResult

\* What the bootstrap finds: whether "from src.freecad_mcp.server import
\* main" works, what importing and calling printing_guidelines gives, whether
\* server.py exists at the expected path, and how the server's main ends.
BootEnv(import, prompts, server_file, server_main) ==
    [import |-> import, prompts |-> prompts, server_file |-> server_file,
     server_main |-> server_main]

\* The bootstrap process has not started.
BootInit ==
    /\ boot_env = BootEnv("ok", "SLA", TRUE, "returns")
    /\ boot_pc = "start"
    /\ main_return = 0
    /\ exit_status = 0

\* calculate_tolerance has not been called.
ToleranceInit ==
    tolerance_result = [valid |-> FALSE, nominal_size |-> 1, grade |-> "IT01",
                        value |-> 0]

\* The AsyncWorker threads handle_send can have started on one client.
Workers == {"w1", "w2"}
IdleSend == [pc |-> "idle", turn |-> 0, tool_calls |-> <<>>, call_idx |-> 0]

\* No send has been made.
SendsInit == sends = [w \in Workers |-> IdleSend]

\* The clearance loops of a run over n parts, each two of which distToShape
\* joins by the same number of point pairs: obj is the position of
\* run_all_checks in the document, other the position of check_clearances,
\* pair the next point pair to record (0 before distToShape is called).
ClearanceRun(n, point_pairs) ==
    [n |-> n, point_pairs |-> point_pairs, obj |-> 1, other |-> 1, pair |-> 0,
     bucket |-> 0, lines |-> 0]

ClearanceInit == clearance = ClearanceRun(2, 1)

\* One face at the head of the loop body of check_wall_thickness:
\* face_checked = False, nothing recorded for the face; after counts the
\* sample points measured once the face was flagged.
FaceSampling(edges, vertexes, u_size, v_size) ==
    [edges |-> edges, vertexes |-> vertexes, u_size |-> u_size,
     v_size |-> v_size, stage |-> "center", idx |-> 1, face_checked |-> FALSE,
     issues |-> 0, after |-> 0, success |-> TRUE]

WallInit == wall = FaceSampling(1, 1, 1, 1)

\* The module as loaded: _freecad_connection is None, the lifespan has not
\* started.  pinged tells whether a ping has succeeded on the cached
\* connection, result what the last get_freecad_connection call came to.
ConnectionInit ==
    connection = [phase |-> "starting", cached |-> FALSE, pinged |-> FALSE,
                  result |-> "none", gets |-> 0, pings |-> 0,
                  last_ping |-> "none"]

\* estimate_cost has not been called.
CostInit == cost_result = [valid |-> FALSE]

\* TaiyakiAIWorkbench.__init__ in a host whose main window exists or not:
\* _dock_widget is None (0), no dock widget has been created; attached holds
\* the dock widgets of the workbench that are children of the main window.
Workbench(main_window) ==
    [main_window |-> main_window, _dock_widget |-> 0, _rpc_thread |-> "None",
     listening |-> FALSE, attached |-> {}, created |-> 0, last |-> "none"]

WorkbenchInit == workbench = Workbench(TRUE)

\* No fix function has been called: calls counts the code strings the
\* connection was asked to execute, fixes is the list the function builds.
FixerInit ==
    fixer = [fn |-> "none", pc |-> "idle", idx |-> 0, calls |-> 0,
             fixes |-> <<>>, placements |-> {}]

LateInit == CostInit /\ WorkbenchInit /\ FixerInit

ExtraInit ==
    SendsInit /\ ClearanceInit /\ WallInit /\ ConnectionInit /\ LateInit

\* The initial state of the subsystems added after the first five.
OtherInit ==
    ValidationInit /\ ObjectsInit /\ BootInit /\ ToleranceInit /\ ExtraInit

Init ==
    BridgeInit /\ ChatInit /\ DFMInit /\ FeaturesInit /\ LayoutInit /\ OtherInit

Next ==
    \/ start_rpc_server
    \/ stop_rpc_server_begin
    \/ serve_loop_exit
    \/ stop_rpc_server_end
    \/ \E c \in Callers : bridged_call(c)
    \/ \E c \in Callers : direct_call(c)
    \/ \E c \in Callers : RPCProxy_run_get(c)
    \/ process_gui_tasks_enter
    \/ process_gui_tasks_step
    \/ process_gui_tasks_rearm

Spec == Init /\ [][Next]_vars

\* ------------------------------------------------------------------------
\* Properties of the Task Bridge and the RPC server (checked under Spec)
\* ------------------------------------------------------------------------

\* C1: a caller of RPCProxy.run returns once the drain has invoked its
\* callable, whatever the callable produced: a caller whose callable has been
\* invoked and has returned (a value or None) is not left blocked on an empty
\* response queue.
C1_RunReturnsOnceInvoked ==
    \A c \in Callers :
        (pc[c] = "waiting" /\ invoked[c] \in {"value", "none"})
            => rpc_response_queue # <<>>

\* C2: every CAD-host API call made for a handler method runs on the GUI
\* thread; the RPC serving thread (and any other caller) never calls the host.
C2_HostCallsOnlyOnGuiThread == host_api_threads \subseteq {"gui"}

\* C6: the GUI thread never waits for the RPC serving thread while that thread
\* waits for the GUI thread's drain: stop_rpc_server is never stuck in
\* shutdown()/join() while the serving thread is suspended in RPCProxy.run
\* with nothing on the response queue.
C6_StopNeverWaitsOnSuspendedRequest ==
    ~(gui_pc = "shutdown" /\ pc["rpc"] = "waiting" /\ rpc_response_queue = <<>>)

\* C7: while the RPC server is running a drain pass is always armed or in
\* progress: the timer is re-armed after every tick, also after a tick in
\* which a queued callable raised.
C7_DrainAlwaysArmed ==
    rpc_server_instance => (timer_pending >= 1 \/ gui_pc = "draining")

\* C14: Task Bridge responses carry no request correlation: a caller that
\* leaves RPCProxy.run gets the oldest response on the queue, whichever
\* caller's callable produced it, so that with two threads inside run at the
\* same time one of them can receive the other's result.
C14_ResponsesAreNotCorrelated ==
    [][\A c \in Callers :
          (pc[c] = "waiting" /\ pc'[c] # "waiting") =>
              /\ rpc_response_queue # <<>>
              /\ ret'[c] = Head(rpc_response_queue)
              /\ rpc_response_queue' = Tail(rpc_response_queue)]_vars

\* C17: a redundant lifecycle call leaves the listener state unchanged:
\* start_rpc_server while a listener exists creates no second listener,
\* serving thread or drain timer and reports that the server is already
\* running; stop_rpc_server when nothing is running changes nothing and
\* reports that it was not running.
C17_RedundantLifecycleCallsChangeNothing ==
    [][/\ (start_rpc_server /\ rpc_server_instance) =>
            /\ lifecycle_msg' = "RPC Server already running."
            /\ UNCHANGED <<rpc_server_instance, rpc_server_thread,
                           shutdown_request, timer_pending, gui_pc, pc,
                           rpc_request_queue, rpc_response_queue>>
       /\ (stop_rpc_server_begin /\ ~rpc_server_instance) =>
            /\ lifecycle_msg' = "RPC Server was not running."
            /\ UNCHANGED <<rpc_server_instance, rpc_server_thread,
                           shutdown_request, timer_pending, gui_pc, pc,
                           rpc_request_queue, rpc_response_queue>>]_vars

\* C17 witness: a second start_rpc_server has returned while the serving
\* thread of the first is inside a handler call.
C17_Witness ==
    /\ lifecycle_msg = "RPC Server already running."
    /\ rpc_server_instance /\ rpc_server_thread
    /\ pc["rpc"] = "waiting"

\* The process_gui_tasks chains alive: a single-shot timer not yet fired, or
\* a tick in progress that re-arms when its loop ends.
TimerChains == timer_pending + (IF gui_pc = "draining" THEN 1 ELSE 0)

\* C23: across any sequence of start_rpc_server and stop_rpc_server calls at
\* most one self-re-arming process_gui_tasks timer chain is pending at any
\* time.
C23_AtMostOneTimerChain == TimerChains <= 1

\* C14 witness: the chat worker has returned from run with the result of the
\* serving thread's callable while the serving thread is still inside run.
C14_Witness ==
    /\ pc["rpc"] = "waiting"
    /\ pc["chat"] = "idle"
    /\ ret["chat"].kind = "value"
    /\ ret["chat"].src = "rpc"


\* ------------------------------------------------------------------------
\* The chat client's tool-calling loop (core/client.py, FreeCADAI.run)
\* ------------------------------------------------------------------------

\* What one tool call of an assistant message is, as far as run can tell:
\*   "ok"       a method of the handler, arguments that are a JSON object
\*   "unknown"  no attribute of that name on the handler (JSON arguments)
\*   "badjson"  arguments json.loads cannot decode
CallKinds == {"ok", "unknown", "badjson"}
\* message.content of a completion: None/empty, whitespace only, or text.
ContentKinds == {"none", "blank", "text"}

Msg(role, id, content) == [role |-> role, id |-> id, content |-> content, calls |-> <<>>]
\* The assistant message that records tool calls (its content plays no part).
AssistantCalls(ids) ==
    [role |-> "assistant", id |-> 0, content |-> "none", calls |-> ids]

\* The tool-call lists an assistant message can carry, with ids from first on.
CallLists(first) ==
    UNION {{[i \in 1..n |-> [id |-> first + i - 1, kind |-> kinds[i]]] :
               kinds \in [1..n -> CallKinds]} : n \in 1..MaxCalls}

ChatStart ==
    /\ messages = <<Msg("system", 0, "text")>>
    /\ max_turns \in 1..MaxTurns
    /\ turn = 0
    /\ chat_pc = "idle"
    /\ tool_calls = <<>>
    /\ call_idx = 0
    /\ completions = 0
    /\ next_id = 1

\* run up to the while loop: the user turn is appended, turn = 0.
run_begin ==
    /\ chat_pc = "idle"
    /\ messages' = Append(messages, Msg("user", 0, "text"))
    /\ turn' = 0
    /\ completions' = 0
    /\ tool_calls' = <<>>
    /\ call_idx' = 0
    /\ chat_pc' = "loop"
    /\ UNCHANGED <<max_turns, next_id, notChat>>

\* An off-by-one loop test.
LoopContinues_Inclusive == turn <= max_turns

\* The loop test of "while turn < self.max_turns".
LoopContinues == turn < max_turns

\* One pass of the loop up to the branch on the assistant message: turn += 1,
\* a completion is requested, and the LLM answers with tool calls ...
run_request_tool_calls ==
    /\ chat_pc = "loop"
    /\ LoopContinues
    /\ turn' = turn + 1
    /\ completions' = completions + 1
    /\ \E calls \in CallLists(next_id) :
          /\ tool_calls' = calls
          /\ messages' = Append(messages,
                 AssistantCalls([i \in 1..Len(calls) |-> calls[i].id]))
          /\ next_id' = next_id + Len(calls)
    /\ call_idx' = 1
    /\ chat_pc' = "calls"
    /\ UNCHANGED <<max_turns, notChat>>

\* ... or with no tool calls: text ends the loop and is appended, content that
\* is blank after strip() ends the loop, and a message with neither tool calls
\* nor content falls through to the next pass.
run_request_content ==
    /\ chat_pc = "loop"
    /\ LoopContinues
    /\ turn' = turn + 1
    /\ completions' = completions + 1
    /\ \E content \in ContentKinds :
          /\ messages' = IF content = "text"
                         THEN Append(messages, Msg("assistant", 0, "text"))
                         ELSE messages
          /\ chat_pc' = IF content = "none" THEN "loop" ELSE "done"
    /\ UNCHANGED <<max_turns, tool_calls, call_idx, next_id, notChat>>

\* The loop test fails: run ends with no further message.
run_exhausted ==
    /\ chat_pc = "loop"
    /\ ~LoopContinues
    /\ chat_pc' = "done"
    /\ UNCHANGED <<messages, max_turns, turn, tool_calls, call_idx, completions,
                   next_id, notChat>>

\* Where run goes after the tool call at position idx has been dealt with:
\* the next call of the turn, or "continue" into the next pass.
AfterCall(idx) == IF idx >= Len(tool_calls) THEN "loop" ELSE "calls"

\* Where run goes when json.loads(tool_call.function.arguments) raises: the
\* statement stands before the try block, so the exception leaves run.
OnBadJson(idx) == "raised"

\* The head of the for-loop body for one tool call: the arguments are decoded,
\* then, inside try, the method is looked up and called.
run_handle_call ==
    /\ chat_pc = "calls"
    /\ call_idx <= Len(tool_calls)
    /\ LET call == tool_calls[call_idx] IN
       CASE call.kind = "badjson" ->
                /\ chat_pc' = OnBadJson(call_idx)
                /\ messages' = IF chat_pc' = "raised" THEN messages
                               ELSE Append(messages, Msg("tool", call.id, "Error"))
                /\ call_idx' = IF chat_pc' = "raised" THEN call_idx ELSE call_idx + 1
         [] call.kind = "unknown" ->
                /\ messages' = Append(messages, Msg("tool", call.id, "Error"))
                /\ call_idx' = call_idx + 1
                /\ chat_pc' = AfterCall(call_idx)
         [] OTHER ->
                /\ chat_pc' = "in_tool"
                /\ UNCHANGED <<messages, call_idx>>
    /\ UNCHANGED <<max_turns, turn, tool_calls, completions, next_id, notChat>>

\* The handler method returns: str(result) becomes the tool message.
tool_returns ==
    /\ chat_pc = "in_tool"
    /\ messages' = Append(messages, Msg("tool", tool_calls[call_idx].id, "result"))
    /\ call_idx' = call_idx + 1
    /\ chat_pc' = AfterCall(call_idx)
    /\ UNCHANGED <<max_turns, turn, tool_calls, completions, next_id, notChat>>

\* The handler method raises: the except branch appends "Error: <message>".
tool_raises ==
    /\ chat_pc = "in_tool"
    /\ messages' = Append(messages, Msg("tool", tool_calls[call_idx].id, "Error"))
    /\ call_idx' = call_idx + 1
    /\ chat_pc' = AfterCall(call_idx)
    /\ UNCHANGED <<max_turns, turn, tool_calls, completions, next_id, notChat>>

InitChat ==
    BridgeInit /\ ChatStart /\ DFMInit /\ FeaturesInit /\ LayoutInit /\ OtherInit

NextChat ==
    \/ run_begin
    \/ run_request_tool_calls
    \/ run_request_content
    \/ run_exhausted
    \/ run_handle_call
    \/ tool_returns
    \/ tool_raises

SpecChat == InitChat /\ [][NextChat]_vars

\* ------------------------------------------------------------------------
\* Sends in flight on one client (ui/widget.py, ChatWidget.handle_send):
\* every send starts an AsyncWorker thread that drives its own run call on
\* the widget's one FreeCADAI, whose messages list the calls share.
\* ------------------------------------------------------------------------

sendRest == <<turn, chat_pc, tool_calls, call_idx, completions, bridgeVars,
              dfmVars, featureVars, layoutVars, validationVars, objectVars,
              bootVars, toleranceVars, clearanceVars, wallVars, connectionVars,
              lateVars>>

\* handle_send and the worker's run call up to the while loop: the user turn
\* is appended.
send_begin(w) ==
    /\ sends[w].pc = "idle"
    /\ messages' = Append(messages, Msg("user", 0, "text"))
    /\ sends' = [sends EXCEPT ![w] = [IdleSend EXCEPT !.pc = "loop"]]
    /\ UNCHANGED <<max_turns, next_id, sendRest>>

\* One pass of the worker's loop in which the LLM answers with tool calls:
\* the assistant message that records them is appended.
send_request_tool_calls(w) ==
    /\ sends[w].pc = "loop"
    /\ sends[w].turn < max_turns
    /\ \E calls \in CallLists(next_id) :
          /\ messages' = Append(messages,
                 AssistantCalls([i \in 1..Len(calls) |-> calls[i].id]))
          /\ next_id' = next_id + Len(calls)
          /\ sends' = [sends EXCEPT ![w] =
                 [pc |-> "calls", turn |-> sends[w].turn + 1,
                  tool_calls |-> calls, call_idx |-> 1]]
    /\ UNCHANGED <<max_turns, sendRest>>

\* One pass in which the LLM answers without tool calls.
send_request_content(w) ==
    /\ sends[w].pc = "loop"
    /\ sends[w].turn < max_turns
    /\ \E content \in ContentKinds :
          /\ messages' = IF content = "text"
                         THEN Append(messages, Msg("assistant", 0, "text"))
                         ELSE messages
          /\ sends' = [sends EXCEPT
                 ![w].turn = sends[w].turn + 1,
                 ![w].pc = IF content = "none" THEN "loop" ELSE "done"]
    /\ UNCHANGED <<max_turns, next_id, sendRest>>

\* The loop test of the worker's run fails.
send_exhausted(w) ==
    /\ sends[w].pc = "loop"
    /\ ~(sends[w].turn < max_turns)
    /\ sends' = [sends EXCEPT ![w].pc = "done"]
    /\ UNCHANGED <<messages, max_turns, next_id, sendRest>>

\* The for-loop body for one tool call of the worker: json.loads raises out
\* of run, or the tool message (the result, or "Error: ...") is appended.
send_handle_call(w) ==
    /\ sends[w].pc = "calls"
    /\ LET idx == sends[w].call_idx
           call == sends[w].tool_calls[idx]
       IN IF call.kind = "badjson"
          THEN /\ sends' = [sends EXCEPT ![w].pc = "raised"]
               /\ UNCHANGED messages
          ELSE /\ messages' = Append(messages,
                      Msg("tool", call.id,
                          IF call.kind = "ok" THEN "result" ELSE "Error"))
               /\ sends' = [sends EXCEPT
                      ![w].call_idx = idx + 1,
                      ![w].pc = IF idx >= Len(sends[w].tool_calls)
                                THEN "loop" ELSE "calls"]
    /\ UNCHANGED <<max_turns, next_id, sendRest>>

NextSends ==
    \E w \in Workers :
        \/ send_begin(w)
        \/ send_request_tool_calls(w)
        \/ send_request_content(w)
        \/ send_exhausted(w)
        \/ send_handle_call(w)

\* The client as constructed, with a persisted max_iterations setting.
InitSends == InitChat /\ max_turns <= MaxSendTurns

SpecSends == InitSends /\ [][NextSends]_vars

\* No run call is in progress on the client.
NoSendInFlight == \A w \in Workers : sends[w].pc \in {"idle", "done", "raised"}

\* The tool messages that have to follow the assistant message at position i.
ToolMessagesFollow(i) ==
    LET calls == messages[i].calls IN
    /\ \A k \in 1..Len(calls) :
           i + k <= Len(messages) =>
               /\ messages[i + k].role = "tool"
               /\ messages[i + k].id = calls[k]
    /\ NoSendInFlight => i + Len(calls) <= Len(messages)

\* C22: in the client's persistent message list every assistant message that
\* records tool calls is followed, before any later user or assistant
\* message, by exactly one tool message per recorded call carrying that
\* call's id: no other message stands between them while sends are in
\* flight, two at once included, and none is missing once every run call has
\* ended, however it ended.
C22_ToolCallsAreAnswered ==
    \A i \in 1..Len(messages) :
        (messages[i].role = "assistant" /\ messages[i].calls # <<>>)
            => ToolMessagesFollow(i)

\* ------------------------------------------------------------------------
\* Properties of FreeCADAI.run (checked under SpecChat)
\* ------------------------------------------------------------------------

\* A measure of what one run call still has to do: the passes left, then the
\* tool calls left in the pass, then the step within one tool call.
ChatVariant ==
    LET K == 2 * MaxCalls + 1
        left == Len(tool_calls) - call_idx + 1
    IN CASE chat_pc = "idle" -> (max_turns + 1) * K + 1
         [] chat_pc = "loop" -> (max_turns - turn) * K + 1
         [] chat_pc = "calls" -> (max_turns - turn) * K + 1 + 2 * left
         [] chat_pc = "in_tool" -> (max_turns - turn) * K + 2 * left
         [] OTHER -> 0

FailingHead ==
    /\ chat_pc = "calls"
    /\ call_idx <= Len(tool_calls)
    /\ tool_calls[call_idx].kind \in {"badjson", "unknown"}

\* C4: a failure while handling one tool call (unknown tool name, arguments
\* that cannot be JSON-decoded, an exception of the tool) never ends the loop:
\* the step that meets the failure appends an "Error: ..." tool message for
\* that call and goes on to the next call of the turn or to the next turn.
C4_ToolFailureNeverEndsLoop ==
    [][(FailingHead \/ tool_raises) =>
          /\ chat_pc' \in {"calls", "loop"}
          /\ messages' = Append(messages, Msg("tool", tool_calls[call_idx].id, "Error"))
      ]_vars

\* C19: a completion whose assistant message carries no tool calls ends the
\* loop: after the step that receives it, run has ended or is about to fail
\* the loop test, so no further completion request is issued in that run
\* call, even when turns remain below max_turns.
C19_NoToolCallsEndsLoop ==
    [][run_request_content =>
          (chat_pc' = "done" \/ ~(turn' < max_turns'))]_vars

\* ------------------------------------------------------------------------
\* The DFM checkers and restore_colors_after_check
\* (dfm/base_checker.py, dfm/cnc_check12.py, dfm/injectm_check3.py,
\*  dfm/tdp_check3.py, core/rpc_handler.py)
\* ------------------------------------------------------------------------

\* The document every DFM call of the model names.
DfmDoc == "Part"

CheckerKinds == {"base", "cnc", "im", "tdp"}

\* The check methods run_all_checks calls on each object, in order, named by
\* the issue type they record.
Checks(kind) ==
    CASE kind = "base" -> <<"wall_thickness">>
      [] kind = "cnc" -> <<"sharp_corners", "small_radius", "high_aspect_ratio",
                           "wall_thickness">>
      [] kind = "im" -> <<"draft_angles", "wall_thickness", "sharp_corners",
                          "undercuts", "high_aspect_ratio">>
      [] kind = "tdp" -> <<"wall_thickness", "small_features", "overhangs",
                           "small_radius", "high_aspect_ratio",
                           "insufficient_clearance">>

color_schemes(key) ==
    CASE key = "wall_thickness" -> "cyan"
      [] key = "sharp_corners" -> "red"
      [] key \in {"small_radius", "draft_angles"} -> "orange"
      [] key = "high_aspect_ratio" -> "purple"
      [] key \in {"small_features", "undercuts"} -> "green"
      [] key = "overhangs" -> "yellow"
      [] key = "insufficient_clearance" -> "blue"

\* The name the host gives a new object: the name asked for, or that name
\* with the first free suffix.
UniqueName(base, k, names) ==
    Name(base, k, CHOOSE n \in 0..(MaxScratch + 1) :
                      /\ Name(base, k, n) \notin names
                      /\ \A m \in 0..(n - 1) : Name(base, k, m) \in names)

Names(objs) == {objs[i] : i \in 1..Len(objs)}
ScratchCount(objs) == Cardinality(Names(objs) \ {Box, Pad})

\* The injection-molding run starts with create_parting_line (step 0); the
\* other runs start with their first check.
FirstStep(kind) == IF kind = "im" THEN 0 ELSE 1

\* DFMChecker.__init__ and the head of run_all_checks: the loop ranges over
\* doc.Objects as it is when the loop starts.
NewChecker(kind, objs, params) ==
    [kind |-> kind, success |-> TRUE, local_success |-> "unbound",
     issues |-> {}, original_colors |-> EmptyDict, additional_objects |-> <<>>,
     todo |-> objs, nobjects |-> Len(objs), step |-> FirstStep(kind),
     raised |-> FALSE, found |-> 0, params |-> params, objects |-> objs]

\* The process types of the 3D-printing checker: two of the presets ("SLA"
\* is a preset of the same shape as "FDM") and the handler's default.
ProcessTypes == {"FDM", "SLS", "Other"}
\* The min_clearance and max_overhang_angle arguments a caller passes.
ClearanceArgs == {5, 50}
OverhangArgs == {45}

\* TDPDFMChecker.__init__: a preset overrides the arguments, any other
\* process type keeps them.
TDPPreset(process_type, min_clearance, max_overhang_angle) ==
    CASE process_type = "FDM" -> Params("FDM", 5, 45)
      [] process_type = "SLS" -> Params("SLS", 5, 0)
      [] OTHER -> Params(process_type, min_clearance, max_overhang_angle)

\* The tunables the constructors of the checkers can end with.
CheckerParams(kind) ==
    IF kind = "tdp"
    THEN {TDPPreset(t, c, a) : t \in ProcessTypes, c \in ClearanceArgs,
                              a \in OverhangArgs}
    ELSE {NoParams}

\* shape.distToShape(other_shape)[0], in tenths of a millimetre: the two
\* parts are 3 mm apart, a clearance line touches the parts it joins.
Distance(a, b) == IF {a, b} = {Box, Pad} THEN 30 ELSE 0

\* The other objects check_clearances records for obj.
TooClose(ck, obj, objs) ==
    {other \in Names(objs) \ {obj} :
        0 < Distance(obj, other) /\ Distance(obj, other) < ck.params.min_clearance}

\* A check method that never returns at once.
OverhangsSkipped_Never(ck) == FALSE

\* check_overhangs returns at once if max_overhang_angle == 0.0.
OverhangsSkipped(ck) == ck.params.max_overhang_angle = 0

Running == checker.kind # "none"
CurrentObj == Head(checker.todo)
CurrentCheck == Checks(checker.kind)[checker.step]

\* The position after the current step: the next check on the same object, or
\* the first step on the next object.
Advance(ck) ==
    IF ck.step < Len(Checks(ck.kind))
    THEN [ck EXCEPT !.step = ck.step + 1]
    ELSE [ck EXCEPT !.step = FirstStep(ck.kind), !.todo = Tail(ck.todo)]

\* run_cnc_manufacturing_dfm_check, run_3d_printing_dfm_check,
\* run_injection_molding_dfm_check and (for "base") run_dfm_checker: the entry
\* point builds a checker and enters run_all_checks.
run_dfm_check_within(kind, max_runs) ==
    /\ ~Running
    /\ dfm_trace.runs < max_runs
    /\ kind = "im" => ScratchCount(doc_objects) + Len(doc_objects) <= MaxScratch
    /\ \E params \in CheckerParams(kind) :
          checker' = NewChecker(kind, doc_objects, params)
    /\ dfm_result' = NoDfmResult
    /\ dfm_trace' = [dfm_trace EXCEPT !.runs = dfm_trace.runs + 1]
    /\ UNCHANGED <<doc_objects, view, colors_storage, additional_objects,
                   notDFM>>

run_dfm_check(kind) == run_dfm_check_within(kind, MaxRuns)

\* IMDFMChecker.create_parting_line, called outside the try blocks.
create_parting_line ==
    /\ Running /\ checker.todo # <<>>
    /\ checker.kind = "im" /\ checker.step = 0
    /\ LET name == UniqueName("Parting_Line", 0, Names(doc_objects)) IN
        /\ doc_objects' = Append(doc_objects, name)
        /\ view' = view @@ (name :> ViewOf("lightblue", "black", 2, 1))
        /\ checker' = [checker EXCEPT
               !.additional_objects = Append(checker.additional_objects, name),
               !.step = 1]
    /\ UNCHANGED <<colors_storage, additional_objects, dfm_result, dfm_trace,
                   notDFM>>

\* A check method that is not called (check_clearances with one object) or
\* finds nothing on the object.
check_passes ==
    /\ Running /\ checker.todo # <<>> /\ checker.step >= 1
    /\ CurrentCheck = "insufficient_clearance" =>
          (checker.nobjects <= 1 \/ TooClose(checker, CurrentObj, doc_objects) = {})
    /\ checker' = Advance(checker)
    /\ UNCHANGED <<doc_objects, view, colors_storage, additional_objects,
                   dfm_result, dfm_trace, notDFM>>

\* The entry of original_colors made on the first touch of an object.
SavedEntry(v) ==
    [shape_color |-> v.shape_color, diffuse_color |-> v.diffuse_color,
     line_color |-> v.line_color, line_width |-> v.line_width,
     shape_color_affected |-> FALSE, diffuse_color_affected |-> FALSE,
     line_color_affected |-> FALSE, line_width_affected |-> FALSE,
     face_count |-> v.faces]

\* highlight_feature for one face of the object: the per-face colour array is
\* expanded to one entry per face if it is not, and the face's entry is set.
HighlightFace(v, i, color) ==
    LET colors == v.diffuse_color
        base_color == IF Len(colors) > 0 THEN colors[1] ELSE v.shape_color
        expanded == IF Len(colors) # v.faces
                    THEN [j \in 1..v.faces |-> base_color]
                    ELSE colors
    IN [v EXCEPT !.diffuse_color = [expanded EXCEPT ![i] = color]]

\* A check method other than check_clearances finds an issue on a face of the
\* object: the face is highlighted and the issue recorded.
check_finds_issue ==
    /\ Running /\ checker.todo # <<>> /\ checker.step >= 1
    /\ CurrentCheck # "insufficient_clearance"
    /\ CurrentCheck = "overhangs" => ~OverhangsSkipped(checker)
    /\ Cardinality(checker.issues) < MaxIssues
    /\ LET obj == CurrentObj
           oc == checker.original_colors
           oc1 == IF obj \in DOMAIN oc THEN oc ELSE oc @@ (obj :> SavedEntry(view[obj]))
           oc2 == [oc1 EXCEPT ![obj].diffuse_color_affected = TRUE]
       IN
        /\ view[obj].faces >= 1
        /\ \E i \in 1..view[obj].faces :
              view' = [view EXCEPT ![obj] =
                          HighlightFace(view[obj], i, color_schemes(CurrentCheck))]
        /\ checker' = Advance([checker EXCEPT
               !.original_colors = oc2,
               !.found = checker.found + 1,
               !.issues = checker.issues \cup
                   {[type |-> CurrentCheck, object |-> obj, other |-> obj]}])
    /\ UNCHANGED <<doc_objects, colors_storage, additional_objects, dfm_result,
                   dfm_trace, notDFM>>

\* TDPDFMChecker.check_clearances finds another object too close (the model
\* has one such object at most, and takes one point pair of the distance
\* solution): a line object is added under the name built from the number of
\* clearance issues, and that name, not the name the host gave, is remembered.
check_clearances ==
    /\ Running /\ checker.todo # <<>> /\ checker.step >= 1
    /\ CurrentCheck = "insufficient_clearance"
    /\ checker.nobjects > 1
    /\ \E other \in TooClose(checker, CurrentObj, doc_objects) :
         LET k == Cardinality({i \in checker.issues :
                                  i.type = "insufficient_clearance"})
             line == UniqueName("InsufficientClearance", k, Names(doc_objects))
         IN
          /\ doc_objects' = Append(doc_objects, line)
          /\ view' = view @@ (line :> ViewOf("grey", "blue", 3, 0))
          /\ checker' = Advance([checker EXCEPT
                 !.additional_objects =
                     Append(checker.additional_objects,
                            Name("InsufficientClearance", k, 0)),
                 !.found = checker.found + 1,
                 !.issues = checker.issues \cup
                     {[type |-> "insufficient_clearance", object |-> CurrentObj,
                       other |-> other]}])
    /\ UNCHANGED <<colors_storage, additional_objects, dfm_result, dfm_trace,
                   notDFM>>

\* The except branch of run_all_checks around one check method: the base, CNC
\* and injection-molding checkers assign self.success, the 3D-printing checker
\* assigns a local name "success".
OnCheckRaises(ck) ==
    IF ck.kind = "tdp"
    THEN [ck EXCEPT !.local_success = "False", !.raised = TRUE]
    ELSE [ck EXCEPT !.success = FALSE, !.raised = TRUE]

\* A check method raises on the object.  check_clearances catches what its
\* loop raises, and a skipped check_overhangs has nothing that can raise.
check_raises ==
    /\ Running /\ checker.todo # <<>> /\ checker.step >= 1
    /\ CurrentCheck # "insufficient_clearance"
    /\ CurrentCheck = "overhangs" => ~OverhangsSkipped(checker)
    /\ checker' = Advance(OnCheckRaises(checker))
    /\ UNCHANGED <<doc_objects, view, colors_storage, additional_objects,
                   dfm_result, dfm_trace, notDFM>>

\* The end of run_all_checks and of the entry point, which returns
\* (checker.success, issues, report_text, checker); _run_dfm_check then keeps
\* the checker's original_colors and additional_objects under the document's
\* name.  run_dfm_checker of the base checker has no handler method and
\* leaves the handler's caches alone.
run_finish ==
    /\ Running /\ checker.todo = <<>>
    /\ IF checker.kind = "base"
       THEN UNCHANGED <<colors_storage, additional_objects>>
       ELSE /\ colors_storage' =
                  [d \in DOMAIN colors_storage \cup {DfmDoc} |->
                      IF d = DfmDoc THEN checker.original_colors
                      ELSE colors_storage[d]]
            /\ additional_objects' =
                  [d \in DOMAIN additional_objects \cup {DfmDoc} |->
                      IF d = DfmDoc THEN checker.additional_objects
                      ELSE additional_objects[d]]
    /\ dfm_result' = [op |-> "check", kind |-> checker.kind,
                      success |-> checker.success, issues |-> checker.issues,
                      message |-> "", raised |-> checker.raised,
                      found |-> checker.found, params |-> checker.params,
                      objects |-> checker.objects]
    /\ dfm_trace' = [dfm_trace EXCEPT
                        !.highlighted = DOMAIN checker.original_colors # {},
                        !.restores = 0]
    /\ checker' = NoChecker
    /\ UNCHANGED <<doc_objects, view, notDFM>>

\* One entry of restore_original_colors: only the channels marked as affected
\* are restored; the per-face colours are restored if the face count is the
\* one recorded, and reset to the empty array otherwise.
RestoreEntry(v, entry) ==
    LET v1 == IF entry.shape_color_affected
              THEN [v EXCEPT !.shape_color = entry.shape_color] ELSE v
        v2 == IF entry.diffuse_color_affected
              THEN IF v1.faces = entry.face_count
                   THEN [v1 EXCEPT !.diffuse_color = entry.diffuse_color]
                   ELSE [v1 EXCEPT !.diffuse_color = <<>>]
              ELSE v1
        v3 == IF entry.line_color_affected
              THEN [v2 EXCEPT !.line_color = entry.line_color] ELSE v2
    IN IF entry.line_width_affected
       THEN [v3 EXCEPT !.line_width = entry.line_width] ELSE v3

\* restore_original_colors: objects that no longer exist are skipped.
restore_original_colors(v, original_colors) ==
    [o \in DOMAIN v |->
        IF o \in DOMAIN original_colors
        THEN RestoreEntry(v[o], original_colors[o]) ELSE v[o]]

\* The loop of remove_additional_objects: the objects left and the names
\* that were not found.
RECURSIVE RemoveLoop(_, _, _)
RemoveLoop(objs, object_names, failed_objects) ==
    IF object_names = <<>>
    THEN [objs |-> objs, failed_objects |-> failed_objects]
    ELSE LET obj_name == Head(object_names) IN
         IF obj_name \in Names(objs)
         THEN RemoveLoop(SelectSeq(objs, LAMBDA o : o # obj_name),
                         Tail(object_names), failed_objects)
         ELSE RemoveLoop(objs, Tail(object_names),
                         Append(failed_objects, obj_name))

\* The message of remove_additional_objects: empty if every name was found.
RemoveMessage(failed_objects) ==
    IF Len(failed_objects) = 0 THEN "" ELSE "Failed to remove objects"

\* " ".join(messages).strip(): empty if every message is empty.
JoinStrip(msgs) ==
    IF \A i \in 1..Len(msgs) : msgs[i] = "" THEN "" ELSE "Failed to remove objects"

\* A lookup that leaves the entry in the dict.
KeepCache(cache, doc_name) == cache

\* dict.pop(doc_name)
PopCache(cache, doc_name) == [d \in DOMAIN cache \ {doc_name} |-> cache[d]]

\* FreeCADRPC.restore_colors_after_check(doc_name), its task included.
restore_colors_after_check ==
    /\ ~Running
    /\ LET hasColors == DfmDoc \in DOMAIN colors_storage
           hasExtras == DfmDoc \in DOMAIN additional_objects
           view1 == IF hasColors
                    THEN restore_original_colors(view, colors_storage[DfmDoc])
                    ELSE view
           m1 == IF hasColors THEN <<"">> ELSE <<>>
           removal == IF hasExtras
                      THEN RemoveLoop(doc_objects, additional_objects[DfmDoc], <<>>)
                      ELSE [objs |-> doc_objects, failed_objects |-> <<>>]
           m2 == IF hasExtras
                 THEN Append(m1, RemoveMessage(removal.failed_objects)) ELSE m1
           msg == JoinStrip(m2)
       IN
        /\ colors_storage' = IF hasColors THEN PopCache(colors_storage, DfmDoc)
                             ELSE colors_storage
        /\ additional_objects' = IF hasExtras
                                 THEN PopCache(additional_objects, DfmDoc)
                                 ELSE additional_objects
        /\ doc_objects' = removal.objs
        /\ view' = [o \in Names(removal.objs) |-> view1[o]]
        /\ dfm_result' = [op |-> "restore", kind |-> "none",
                          success |-> (msg = ""), issues |-> {},
                          message |-> msg, raised |-> FALSE, found |-> 0,
                          params |-> NoParams, objects |-> <<>>]
    /\ dfm_trace' = [dfm_trace EXCEPT
                        !.restores = IF dfm_trace.restores < 2
                                     THEN dfm_trace.restores + 1 ELSE 2]
    /\ UNCHANGED <<checker, notDFM>>

\* FreeCADRPC.delete_object(doc_name, obj_name) on a scratch object of the
\* checked document, between two DFM calls: doc.removeObject(obj_name).
delete_scratch_object ==
    /\ ~Running
    /\ \E obj \in Names(doc_objects) \ {Box, Pad} :
          /\ doc_objects' = SelectSeq(doc_objects, LAMBDA o : o # obj)
          /\ view' = [o \in DOMAIN view \ {obj} |-> view[o]]
    /\ UNCHANGED <<colors_storage, additional_objects, checker, dfm_result,
                   dfm_trace, notDFM>>

InitDFM ==
    BridgeInit /\ ChatInit /\ DFMInit /\ FeaturesInit /\ LayoutInit /\ OtherInit

NextDFM ==
    \/ \E kind \in CheckerKinds : run_dfm_check(kind)
    \/ create_parting_line
    \/ check_passes
    \/ check_finds_issue
    \/ check_clearances
    \/ check_raises
    \/ run_finish
    \/ restore_colors_after_check

SpecDFM == InitDFM /\ [][NextDFM]_vars

\* The DFM calls together with delete_object calls on the same document.
NextScratch ==
    \/ NextDFM
    \/ delete_scratch_object

SpecScratch == InitDFM /\ [][NextScratch]_vars

\* The DFM calls that go through FreeCADRPC._run_dfm_check: the CNC, the
\* 3D-printing and the injection-molding check, and the restore.
NextHandler ==
    \/ \E kind \in CheckerKinds \ {"base"} :
          run_dfm_check_within(kind, MaxHandlerRuns)
    \/ create_parting_line
    \/ check_passes
    \/ check_finds_issue
    \/ check_clearances
    \/ check_raises
    \/ run_finish
    \/ restore_colors_after_check

SpecHandler == InitDFM /\ [][NextHandler]_vars

\* ------------------------------------------------------------------------
\* Properties of the DFM checkers (checked under SpecDFM)
\* ------------------------------------------------------------------------

\* A scratch-object name cached for the document names no object of it.
MissingCachedName ==
    /\ DfmDoc \in DOMAIN additional_objects
    /\ \E i \in 1..Len(additional_objects[DfmDoc]) :
          additional_objects[DfmDoc][i] \notin Names(doc_objects)

\* C5: after a DFM check that highlighted objects, the first and the second
\* restore_colors_after_check both return their record (the first with
\* success unless a cached scratch object is missing, the second with
\* success), and the second changes neither the objects of the document and
\* their display properties nor the handler's colors_storage and
\* additional_objects.
C5_SecondRestoreChangesNothing ==
    [][(restore_colors_after_check /\ dfm_trace.highlighted
            /\ dfm_trace.restores <= 1) =>
          /\ dfm_result'.op = "restore"
          /\ ~MissingCachedName => dfm_result'.success
          /\ dfm_trace.restores = 1 =>
                /\ dfm_result'.success
                /\ UNCHANGED <<doc_objects, view, colors_storage,
                               additional_objects>>
      ]_vars

\* C5 witness: two restores in a row have returned after a check that
\* highlighted objects.
C5_Witness ==
    /\ dfm_trace.highlighted
    /\ dfm_trace.restores = 2
    /\ dfm_result.op = "restore"
    /\ dfm_result.success

\* C10: whichever checker ran, if a check method raised on some object the
\* success value returned is false, and the issues returned are the ones the
\* other checks recorded.
C10_RaisingCheckReportsFailure ==
    (dfm_result.op = "check" /\ dfm_result.raised) =>
        /\ dfm_result.success = FALSE
        /\ Cardinality(dfm_result.issues) = dfm_result.found

\* C20: scratch-object removal tolerates names that are already missing:
\* when a cached scratch-object name no longer names an object of the
\* document, restore_colors_after_check still reports success and does not
\* count that name as a failure.
C20_MissingScratchNameStillSucceeds ==
    [][(restore_colors_after_check /\ MissingCachedName) =>
          (dfm_result'.success /\ dfm_result'.message = "")]_vars

\* The entries of one issue bucket of the last result.
Bucket(type) == {i \in dfm_result.issues : i.type = type}

\* C12: the 3D-printing checker, run with min_clearance = 5.0 on a document
\* that holds exactly two boxes 3 mm apart, records exactly one
\* insufficient_clearance entry, and that entry names both objects.
C12_OneClearanceEntryForThePair ==
    (/\ dfm_result.op = "check" /\ dfm_result.kind = "tdp"
     /\ dfm_result.params.min_clearance = 50
     /\ dfm_result.objects = Parts)
        => /\ Cardinality(Bucket("insufficient_clearance")) = 1
           /\ \A i \in Bucket("insufficient_clearance") :
                 {i.object, i.other} = {Box, Pad}

\* C15: a 3D-printing checker constructed with process_type "SLS" has
\* max_overhang_angle 0 and, whatever the checks find on the objects,
\* finishes run_all_checks with an empty overhangs bucket.
C15_SLSNeverReportsOverhangs ==
    (/\ dfm_result.op = "check" /\ dfm_result.kind = "tdp"
     /\ dfm_result.params.process_type = "SLS")
        => /\ dfm_result.params.max_overhang_angle = 0
           /\ Bucket("overhangs") = {}

\* C15 witness: an SLS run has finished in which other checks found issues
\* on both parts.
C15_Witness ==
    /\ dfm_result.op = "check" /\ dfm_result.kind = "tdp"
    /\ dfm_result.params.process_type = "SLS"
    /\ \E i, j \in dfm_result.issues : i.object = Box /\ j.object = Pad

\* ------------------------------------------------------------------------
\* The loops of TDPDFMChecker.check_clearances (dfm/tdp_check3.py), one
\* point pair at a time.  The loops range over the parts; the indicator
\* lines added during the run touch the parts they join or lie far from
\* the others, so that no entry is recorded for them.
\* ------------------------------------------------------------------------

\* len(self.issues["insufficient_clearance"]) > 10
clearance_limit == 10

BucketFull(bucket) == bucket > clearance_limit

InCheck == clearance.obj <= clearance.n /\ clearance.other <= clearance.n

\* if other == obj: continue
clearance_continue ==
    /\ InCheck /\ clearance.pair = 0
    /\ clearance.other = clearance.obj
    /\ clearance' = [clearance EXCEPT !.other = clearance.other + 1]
    /\ UNCHANGED notClearance

\* shape.distToShape(other_shape): either the distance is not inside
\* (0, min_clearance) and the loop goes on with the next object, or it is
\* and the loop over the point pairs starts.
clearance_measure ==
    /\ InCheck /\ clearance.pair = 0
    /\ clearance.other # clearance.obj
    /\ \E close \in BOOLEAN :
          clearance' = IF close
                       THEN [clearance EXCEPT !.pair = 1]
                       ELSE [clearance EXCEPT !.other = clearance.other + 1]
    /\ UNCHANGED notClearance

\* One pass of "for point_pair in dist_info[1]": a line object is added and
\* an entry appended.
clearance_record ==
    /\ InCheck
    /\ clearance.pair \in 1..clearance.point_pairs
    /\ clearance' = [clearance EXCEPT !.pair = clearance.pair + 1,
                                      !.bucket = clearance.bucket + 1,
                                      !.lines = clearance.lines + 1]
    /\ UNCHANGED notClearance

\* After the point pairs of one other object: break if the bucket holds more
\* than 10 entries, else the next other object.
clearance_after_pairs ==
    /\ InCheck
    /\ clearance.pair = clearance.point_pairs + 1
    /\ clearance' = [clearance EXCEPT
           !.pair = 0,
           !.other = IF BucketFull(clearance.bucket)
                     THEN clearance.n + 1 ELSE clearance.other + 1]
    /\ UNCHANGED notClearance

\* check_clearances returns and run_all_checks calls it for the next object.
clearance_next_object ==
    /\ clearance.obj <= clearance.n
    /\ clearance.other = clearance.n + 1
    /\ clearance' = [clearance EXCEPT !.obj = clearance.obj + 1, !.other = 1]
    /\ UNCHANGED notClearance

InitClearance ==
    /\ BridgeInit /\ ChatInit /\ DFMInit /\ FeaturesInit /\ LayoutInit
    /\ ValidationInit /\ ObjectsInit /\ BootInit /\ ToleranceInit /\ SendsInit
    /\ WallInit /\ ConnectionInit /\ LateInit
    /\ \E n \in 2..MaxParts, point_pairs \in 1..MaxPointPairs :
          clearance = ClearanceRun(n, point_pairs)

NextClearance ==
    \/ clearance_continue
    \/ clearance_measure
    \/ clearance_record
    \/ clearance_after_pairs
    \/ clearance_next_object

SpecClearance == InitClearance /\ [][NextClearance]_vars

\* C24: during one run of the 3D-printing checker, once the
\* insufficient_clearance bucket holds more than 10 entries no further
\* clearance entry and no further indicator line object is added in that
\* run, whichever object is checked next.
C24_NothingAddedPastTheLimit ==
    [][clearance.bucket > clearance_limit =>
          /\ clearance'.bucket = clearance.bucket
          /\ clearance'.lines = clearance.lines]_vars

\* ------------------------------------------------------------------------
\* DFMChecker.check_wall_thickness on one face (dfm/base_checker.py)
\* ------------------------------------------------------------------------

\* What measuring one sample point comes to: a thickness in range (or None),
\* a thickness out of range, or an exception of the geometry kernel.
SampleOutcomes == {"in_range", "out_of_range", "raises"}

\* The UV grid of stage 4: grid_steps = 3, the longer side gets
\* grid_steps + 1 steps, the shorter max(1, int(grid_steps * ratio)) + 1,
\* and the loops run over range(1, steps).
grid_steps == 3
GridPoints(u_size, v_size) ==
    LET Max1(x) == IF x > 1 THEN x ELSE 1
        u_steps == IF u_size > v_size THEN grid_steps + 1
                   ELSE Max1((grid_steps * u_size) \div v_size) + 1
        v_steps == IF u_size > v_size
                   THEN Max1((grid_steps * v_size) \div u_size) + 1
                   ELSE grid_steps + 1
    IN (u_steps - 1) * (v_steps - 1)

\* The record after one sample point was measured and found out of range:
\* the issue is appended and face_checked set.
Flagged(w) ==
    [w EXCEPT !.issues = w.issues + 1, !.face_checked = TRUE,
              !.after = w.after + (IF w.face_checked THEN 1 ELSE 0)]

\* The record after a sample point was measured and nothing recorded.
Measured(w, outcome) ==
    [w EXCEPT !.after = w.after + (IF w.face_checked THEN 1 ELSE 0),
              !.success = w.success /\ outcome # "raises"]

\* The stage after the loop of a stage has ended without a flagged point.
NextStage(stage) ==
    CASE stage = "center" -> "edges"
      [] stage = "edges" -> "vertexes"
      [] stage = "vertexes" -> "grid"
      [] OTHER -> "done"

\* Stage 1, the face center: flagged, the loop goes to the next face; in
\* range or raising, the stages that follow are tried.
wall_center ==
    /\ wall.stage = "center"
    /\ \E outcome \in SampleOutcomes :
          wall' = IF outcome = "out_of_range"
                  THEN [Flagged(wall) EXCEPT !.stage = "done"]
                  ELSE [Measured(wall, outcome) EXCEPT !.stage = "edges"]
    /\ UNCHANGED notWall

\* Stages 2 and 3, one pass of "for edge in face.Edges" or of "for vertex in
\* face.Vertexes": a flagged point breaks the loop and ends the face.
wall_points ==
    /\ wall.stage \in {"edges", "vertexes"}
    /\ LET n == IF wall.stage = "edges" THEN wall.edges ELSE wall.vertexes IN
       \E outcome \in SampleOutcomes :
          wall' = IF outcome = "out_of_range"
                  THEN [Flagged(wall) EXCEPT !.stage = "done"]
                  ELSE IF wall.idx < n
                       THEN [Measured(wall, outcome) EXCEPT !.idx = wall.idx + 1]
                       ELSE [Measured(wall, outcome) EXCEPT
                                !.stage = NextStage(wall.stage), !.idx = 1]
    /\ UNCHANGED notWall

\* Stage 4, one point of the UV grid: a flagged point is recorded and the
\* inner loop continues with the next point; an exception leaves the stage.
wall_grid ==
    /\ wall.stage = "grid"
    /\ LET n == GridPoints(wall.u_size, wall.v_size) IN
       \E outcome \in SampleOutcomes :
          LET w == IF outcome = "out_of_range" THEN Flagged(wall)
                   ELSE Measured(wall, outcome)
          IN wall' = IF outcome = "raises" \/ wall.idx >= n
                     THEN [w EXCEPT !.stage = "done"]
                     ELSE [w EXCEPT !.idx = wall.idx + 1]
    /\ UNCHANGED notWall

InitWall ==
    /\ BridgeInit /\ ChatInit /\ DFMInit /\ FeaturesInit /\ LayoutInit
    /\ ValidationInit /\ ObjectsInit /\ BootInit /\ ToleranceInit /\ SendsInit
    /\ ClearanceInit /\ ConnectionInit /\ LateInit
    /\ \E edges, vertexes \in 1..MaxFacePoints, u_size, v_size \in 1..MaxRange :
          wall = FaceSampling(edges, vertexes, u_size, v_size)

NextWall ==
    \/ wall_center
    \/ wall_points
    \/ wall_grid

SpecWall == InitWall /\ [][NextWall]_vars

\* C25: check_wall_thickness records at most one wall_thickness issue per
\* face: once a sampling stage (face center, edge midpoints, vertices, UV
\* grid) has flagged the face, no further sample point on it is measured or
\* recorded.
C25_AtMostOneIssuePerFace == wall.issues <= 1 /\ wall.after = 0

\* ------------------------------------------------------------------------
\* The tool server's connection to the CAD host (src/freecad_mcp/server.py)
\* ------------------------------------------------------------------------

\* FreeCADConnection.ping is self.server.ping() over XML-RPC: it returns what
\* the addon returns, or raises when no listener answers.
PingOutcomes == {"true", "false", "raises"}

\* What a ping that raises leaves in the global: the assignment of the new
\* connection was made before the ping, the assignment of None is not reached.
AfterPingRaises(c) == [c EXCEPT !.cached = TRUE, !.pinged = FALSE]

\* get_freecad_connection(): the global after the call and what the call
\* came to, for the outcome the ping would have.
get_freecad_connection(c, ping) ==
    LET called == [c EXCEPT !.gets = c.gets + 1] IN
    IF ~c.cached
    THEN LET pinged == [called EXCEPT !.pings = c.pings + 1, !.last_ping = ping] IN
         CASE ping = "true" ->
                  [pinged EXCEPT !.cached = TRUE, !.pinged = TRUE,
                                 !.result = "returned"]
           [] ping = "false" ->
                  [pinged EXCEPT !.cached = FALSE, !.pinged = FALSE,
                                 !.result = "raised"]
           [] OTHER ->
                  [AfterPingRaises(pinged) EXCEPT !.result = "raised"]
    ELSE [called EXCEPT !.result = "returned"]

\* server_lifespan up to the yield: the connection is tried and a failure
\* only logged.
lifespan_startup ==
    /\ connection.phase = "starting"
    /\ \E ping \in PingOutcomes :
          connection' = [get_freecad_connection(connection, ping)
                            EXCEPT !.phase = "serving"]
    /\ UNCHANGED notConnection

\* A tool or resource of the server asks for the connection.
tool_get_connection ==
    /\ connection.phase = "serving"
    /\ connection.gets < MaxGets
    /\ \E ping \in PingOutcomes :
          connection' = get_freecad_connection(connection, ping)
    /\ UNCHANGED notConnection

\* server_lifespan after the yield: the global is set to None.
lifespan_shutdown ==
    /\ connection.phase = "serving"
    /\ connection' = [connection EXCEPT !.phase = "stopped",
                                        !.cached = FALSE, !.pinged = FALSE]
    /\ UNCHANGED notConnection

InitConnection ==
    BridgeInit /\ ChatInit /\ DFMInit /\ FeaturesInit /\ LayoutInit /\ OtherInit

NextConnection ==
    \/ lifespan_startup
    \/ tool_get_connection
    \/ lifespan_shutdown

SpecConnection == InitConnection /\ [][NextConnection]_vars

\* C26: get_freecad_connection never returns a connection on which no ping
\* has succeeded: after a first-use ping that fails, by returning false or by
\* raising, the cached connection is cleared, so that the next call pings
\* again before it returns.
C26_NeverReturnsUnpingedConnection ==
    /\ (connection.result = "returned" /\ connection.phase # "stopped")
           => (connection.cached /\ connection.pinged)
    /\ (connection.result = "raised" /\ connection.phase # "stopped")
           => ~connection.cached

\* ------------------------------------------------------------------------
\* CostEstimator.estimate_cost (src/freecad_mcp/manufacturing_framework.py)
\* Amounts are in 1/10000 USD; an amount per unit is kept as a fraction
\* whose denominator is the quantity, so that the arithmetic is exact.
\* ------------------------------------------------------------------------

\* cost_setup and cost_per_volume of the processes of the database
\* (cost_per_area keeps its default 0.0 in every entry).
ProcessCosts ==
    [fdm |-> [cost_setup |-> 0, cost_per_volume |-> 5000],
     sla |-> [cost_setup |-> 50000, cost_per_volume |-> 20000],
     sls |-> [cost_setup |-> 500000, cost_per_volume |-> 50000],
     cnc_milling |-> [cost_setup |-> 1000000, cost_per_volume |-> 150000],
     dmls |-> [cost_setup |-> 2000000, cost_per_volume |-> 500000]]

\* The cost of the material of one cm3, density * cost_per_kg / 1e6 USD: two
\* of the materials of the database, and a name that is not in it.
MaterialCosts == [PLA |-> 310, Aluminum_6061 |-> 108, unknown |-> 0]

Frac(num, den) == [num |-> num, den |-> den]
\* a + b and a * k for a fraction a with the denominator of b, a whole k.
FracPlus(a, b) == Frac(a.num + b.num, a.den)
FracTimes(a, k) == (a.num * k) \div a.den

\* estimate_cost(volume_cm3, 0, quantity) of CostEstimator(process, material)
estimate_cost(process, material, volume_cm3, quantity) ==
    LET process_constraints == ProcessCosts[process]
        material_cost == volume_cm3 * MaterialCosts[material]
        setup_cost == process_constraints.cost_setup
        manufacturing_cost == volume_cm3 * process_constraints.cost_per_volume
        cost_per_unit == material_cost + manufacturing_cost
        setup_cost_per_unit == IF quantity > 0 THEN Frac(setup_cost, quantity)
                               ELSE Frac(setup_cost, 1)
        total_cost_per_unit ==
            FracPlus(Frac(cost_per_unit * setup_cost_per_unit.den,
                          setup_cost_per_unit.den), setup_cost_per_unit)
        total_cost == FracTimes(total_cost_per_unit, quantity) + setup_cost
    IN [valid |-> TRUE,
        material_cost_per_unit |-> material_cost,
        manufacturing_cost_per_unit |-> manufacturing_cost,
        setup_cost |-> setup_cost,
        setup_cost_per_unit |-> setup_cost_per_unit,
        cost_per_unit |-> cost_per_unit,
        total_cost_per_unit |-> total_cost_per_unit,
        total_cost |-> total_cost,
        quantity |-> quantity,
        volume_cm3 |-> volume_cm3]

\* One call of estimate_cost on an estimator for a process and a material.
estimate_cost_call ==
    /\ \E process \in DOMAIN ProcessCosts, material \in DOMAIN MaterialCosts,
          volume_cm3 \in 1..MaxVolume, quantity \in 1..MaxQuantity :
          cost_result' = estimate_cost(process, material, volume_cm3, quantity)
    /\ UNCHANGED notCost

InitCost ==
    BridgeInit /\ ChatInit /\ DFMInit /\ FeaturesInit /\ LayoutInit /\ OtherInit

NextCost == estimate_cost_call

SpecCost == InitCost /\ [][NextCost]_vars

\* C28: estimate_cost counts the one-time setup cost exactly once in
\* total_cost: for every quantity of at least 1, total_cost equals
\* quantity * (material cost per unit + manufacturing cost per unit)
\* + setup cost.
C28_SetupCostCountedOnce ==
    (cost_result.valid /\ cost_result.quantity >= 1) =>
        cost_result.total_cost =
            cost_result.quantity * (cost_result.material_cost_per_unit
                                    + cost_result.manufacturing_cost_per_unit)
            + cost_result.setup_cost

\* ------------------------------------------------------------------------
\* The workbench and its Chat dock widget (InitGui.py)
\* ------------------------------------------------------------------------

\* TaiyakiAIWorkbench.Activated: the RPC server is started (or found
\* running), and with a main window a new dock widget is created, kept in
\* _dock_widget and added to the main window.
Activated ==
    /\ workbench.created < MaxDocks
    /\ LET started == [workbench EXCEPT
               !._rpc_thread = IF workbench.listening
                               THEN "RPC Server already running."
                               ELSE "RPC Server started.",
               !.listening = TRUE, !.last = "Activated"]
           dock == workbench.created + 1
       IN workbench' =
             IF ~workbench.main_window THEN started
             ELSE [started EXCEPT !._dock_widget = dock,
                                  !.created = dock,
                                  !.attached = workbench.attached \cup {dock}]
    /\ UNCHANGED notWorkbench

\* TaiyakiAIWorkbench.Deactivated: the RPC server is stopped, and the dock
\* widget _dock_widget refers to, if any, is removed from the main window,
\* detached and forgotten.
Deactivated ==
    /\ workbench' = [workbench EXCEPT
           !.listening = FALSE, !.last = "Deactivated",
           !.attached = IF workbench._dock_widget # 0
                        THEN workbench.attached \ {workbench._dock_widget}
                        ELSE workbench.attached,
           !._dock_widget = 0]
    /\ UNCHANGED notWorkbench

InitWorkbench ==
    /\ BridgeInit /\ ChatInit /\ DFMInit /\ FeaturesInit /\ LayoutInit
    /\ ValidationInit /\ ObjectsInit /\ BootInit /\ ToleranceInit /\ SendsInit
    /\ ClearanceInit /\ WallInit /\ ConnectionInit /\ CostInit /\ FixerInit
    /\ \E main_window \in BOOLEAN : workbench = Workbench(main_window)

NextWorkbench ==
    \/ Activated
    \/ Deactivated

SpecWorkbench == InitWorkbench /\ [][NextWorkbench]_vars

\* C29: after any sequence of workbench Activated and Deactivated calls at
\* most one Chat dock widget created by the workbench is attached to the
\* main window, and none is attached once Deactivated has returned.
C29_AtMostOneChatDock ==
    /\ Cardinality(workbench.attached) <= 1
    /\ workbench.last = "Deactivated" => workbench.attached = {}

\* ------------------------------------------------------------------------
\* The automatic fixes of the tool server (src/freecad_mcp/server.py):
\* _apply_geometry_fixes, _apply_manufacturability_fixes, _apply_spatial_fixes
\* Lengths are in tenths of a millimetre, positions in hundredths.
\* ------------------------------------------------------------------------

FixFunctions == {"geometry", "manufacturability", "spatial"}

\* The values a dimension of an object dictionary takes: zero, 0.3 mm, 10 mm.
Dims == {0, 3, 100}
\* Placement.Base: the empty dict of an object without one, or its x at
\* 0, 0.04 mm or 20 mm (y and z are 0).
Bases == {<<>>, <<0>>, <<4>>, <<2000>>}

\* The object dictionaries get_objects returns, TypeId as its parts.
FixObjects ==
    {[TypeId |-> <<"Part", "Box">>, Length |-> l, Width |-> w, Height |-> h,
      Base |-> b] : l \in Dims, w \in Dims, h \in Dims, b \in Bases}
    \cup {[TypeId |-> <<"Part", "Cylinder">>, Radius |-> r, Height |-> h,
           Base |-> b] : r \in Dims, h \in Dims, b \in Bases}
    \cup {[TypeId |-> <<"Part", "Sphere">>, Radius |-> r, Base |-> b] :
              r \in Dims, b \in Bases}
    \cup {[TypeId |-> <<"Part", "Cone">>, Radius1 |-> r1, Radius2 |-> r2,
           Height |-> h, Base |-> b] :
              r1 \in Dims, r2 \in Dims, h \in Dims, b \in Bases}
    \cup {[TypeId |-> <<"Part", "Feature">>, Base |-> b] : b \in Bases}

\* obj.get(key, 0)
Get(obj, key) == IF key \in DOMAIN obj THEN obj[key] ELSE 0

\* "Box" in obj_type
TypeHas(obj, word) == \E i \in 1..Len(obj.TypeId) : obj.TypeId[i] = word

\* The fixes the body of the loop of _apply_geometry_fixes makes for one
\* object, in order, named by the description appended.
GeometryFixes(obj) ==
    CASE TypeHas(obj, "Box") ->
             IF \E d \in {Get(obj, "Length"), Get(obj, "Width"),
                           Get(obj, "Height")} : d <= 0
             THEN <<"Fixed zero dimensions">> ELSE <<>>
      [] TypeHas(obj, "Cylinder") ->
             IF Get(obj, "Radius") <= 0 \/ Get(obj, "Height") <= 0
             THEN <<"Fixed invalid parameters">> ELSE <<>>
      [] TypeHas(obj, "Sphere") ->
             IF Get(obj, "Radius") <= 0
             THEN <<"Fixed invalid radius">> ELSE <<>>
      [] TypeHas(obj, "Cone") ->
             (IF Get(obj, "Radius1") <= 0 /\ Get(obj, "Radius2") <= 0
              THEN <<"Fixed invalid cone radii">> ELSE <<>>)
             \o (IF Get(obj, "Height") <= 0
                 THEN <<"Fixed invalid height">> ELSE <<>>)
      [] OTHER -> <<>>

\* min_thickness = 1.5 and min_radius = 0.5
min_thickness == 15
min_radius == 5

\* The fixes of the loop body of _apply_manufacturability_fixes.
ManufacturabilityFixes(obj) ==
    CASE TypeHas(obj, "Box") ->
             (IF 0 < Get(obj, "Height") /\ Get(obj, "Height") < min_thickness
              THEN <<"Increased thickness">> ELSE <<>>)
             \o (IF 0 < Get(obj, "Width") /\ Get(obj, "Width") < min_thickness
                 THEN <<"Increased width">> ELSE <<>>)
      [] TypeHas(obj, "Cylinder") ->
             IF 0 < Get(obj, "Radius") /\ Get(obj, "Radius") < min_radius
             THEN <<"Increased radius">> ELSE <<>>
      [] OTHER -> <<>>

\* f"{x:.1f}" of a position that is not negative, as a number of tenths.
PosKey(x) == (x + 5) \div 10

\* The loop body of _apply_spatial_fixes: an object with a Base whose key is
\* taken is moved, another object with a Base takes its key.
SpatialFixes(obj, placements) ==
    IF obj.Base # <<>> /\ PosKey(obj.Base[1]) \in placements
    THEN <<"Separated">> ELSE <<>>

SpatialPlacements(obj, placements) ==
    IF obj.Base = <<>> THEN placements
    ELSE placements \cup {PosKey(obj.Base[1])}

\* freecad.execute_code(fix_code) without the fixes.append that follows it.
ApplyFix_Unreported(f, description) == [f EXCEPT !.calls = f.calls + 1]

\* freecad.execute_code(fix_code) followed by fixes.append(description)
ApplyFix(f, description) ==
    [f EXCEPT !.calls = f.calls + 1, !.fixes = Append(f.fixes, description)]

\* The fixes of one loop body applied in order; execute_code number raise_at
\* of the body raises (0: none does), and the exception leaves the function.
RECURSIVE ApplyFixes(_, _, _)
ApplyFixes(f, descriptions, raise_at) ==
    IF descriptions = <<>> THEN f
    ELSE IF raise_at = 1
         THEN [f EXCEPT !.calls = f.calls + 1, !.pc = "raised"]
         ELSE ApplyFixes(ApplyFix(f, Head(descriptions)), Tail(descriptions),
                         IF raise_at = 0 THEN 0 ELSE raise_at - 1)

\* One of the three functions is called: fixes = [].
fix_begin ==
    /\ fixer.pc = "idle"
    /\ \E fn \in FixFunctions :
          fixer' = [fn |-> fn, pc |-> "loop", idx |-> 0, calls |-> 0,
                    fixes |-> <<>>, placements |-> {}]
    /\ UNCHANGED notFixer

\* One pass of "for obj in objects_data".
fix_object ==
    /\ fixer.pc = "loop"
    /\ fixer.idx < MaxFixObjects
    /\ \E obj \in FixObjects :
         LET descriptions ==
                 CASE fixer.fn = "geometry" -> GeometryFixes(obj)
                   [] fixer.fn = "manufacturability" -> ManufacturabilityFixes(obj)
                   [] OTHER -> SpatialFixes(obj, fixer.placements)
             next == [fixer EXCEPT
                         !.idx = fixer.idx + 1,
                         !.placements =
                             IF fixer.fn = "spatial"
                             THEN SpatialPlacements(obj, fixer.placements)
                             ELSE fixer.placements]
         IN \E raise_at \in 0..Len(descriptions) :
               fixer' = ApplyFixes(next, descriptions, raise_at)
    /\ UNCHANGED notFixer

\* The list is exhausted: return fixes.
fix_return ==
    /\ fixer.pc = "loop"
    /\ fixer' = [fixer EXCEPT !.pc = "returned"]
    /\ UNCHANGED notFixer

InitFixer ==
    BridgeInit /\ ChatInit /\ DFMInit /\ FeaturesInit /\ LayoutInit /\ OtherInit

NextFixer ==
    \/ fix_begin
    \/ fix_object
    \/ fix_return

SpecFixer == InitFixer /\ [][NextFixer]_vars

\* C30: for any list of object dictionaries, each of _apply_geometry_fixes,
\* _apply_manufacturability_fixes and _apply_spatial_fixes returns exactly
\* one fix description per execute_code call it made: the number of fixes
\* reported equals the number of code strings the connection was asked to
\* execute.
C30_OneFixPerExecutedCode ==
    fixer.pc = "returned" => Len(fixer.fixes) = fixer.calls

\* C30 witness: _apply_geometry_fixes has returned two fixes for a list of
\* one object, a cone with both radii and the height at zero.
C30_Witness ==
    /\ fixer.pc = "returned" /\ fixer.fn = "geometry"
    /\ fixer.idx = 1 /\ fixer.calls = 2
    /\ fixer.fixes = <<"Fixed invalid cone radii", "Fixed invalid height">>

\* The display properties the parts have before any check.
OriginalView == ViewOf("grey", "black", 2, 1)

\* C21: after any sequence of DFM-check and restore_colors_after_check calls
\* on one document through the same handler, a final restore returns every
\* highlighted object to the display properties it had before the earliest
\* check that had not yet been restored; two checks in a row without a
\* restore in between lose no original colors.
C21_FinalRestoreReturnsOriginalColors ==
    dfm_result.op = "restore" => \A o \in {Box, Pad} : view[o] = OriginalView

\* ------------------------------------------------------------------------
\* The feature tree of AdvancedCADOperations
\* (src/freecad_mcp/advanced_cad_operations.py)
\* ------------------------------------------------------------------------

FeatureNames == {"A", "B", "C"}

\* An edge reference as its "."-separated parts: <<"A", "Edge1">> is
\* "A.Edge1", <<"Edge1">> is "Edge1".
EdgeRefs == {<<n, "Edge1">> : n \in FeatureNames} \cup {<<"Edge1">>}

\* The edge lists a fillet is created with.
EdgeLists == UNION {[1..n -> EdgeRefs] : n \in 1..MaxEdges}

\* self.features is a dict: its keys in insertion order.
FeatureKeys == [i \in 1..Len(features) |-> features[i].name]
HasFeature(name) == \E i \in 1..Len(features) : features[i].name = name
FeatureAt(name) == CHOOSE i \in 1..Len(features) : features[i].name = name

\* _get_dependencies_for_edges: the feature named before the "." of each
\* edge, if a feature of that name exists now.
RECURSIVE _get_dependencies_for_edges(_)
_get_dependencies_for_edges(edges) ==
    IF edges = <<>> THEN <<>>
    ELSE LET edge == Head(edges)
             rest == _get_dependencies_for_edges(Tail(edges))
         IN IF Len(edge) > 1 /\ HasFeature(edge[1])
            THEN <<edge[1]>> \o rest
            ELSE rest

\* self.features[name] = feature: a new key goes last, a known key keeps its
\* place.
SetFeature(feature) ==
    IF HasFeature(feature.name)
    THEN [features EXCEPT ![FeatureAt(feature.name)] = feature]
    ELSE Append(features, feature)

\* create_fillet_feature(name, edges, radius)
create_fillet_feature(name, edges) ==
    /\ Len(feature_tree) < MaxTree
    /\ features' = SetFeature([name |-> name, edges |-> edges,
                               dependencies |-> _get_dependencies_for_edges(edges)])
    /\ feature_tree' = Append(feature_tree, name)
    /\ analysis' = NoAnalysis
    /\ UNCHANGED notFeatures

\* analysis["dependency_graph"].get(node, [])
Neighbors(node) ==
    IF HasFeature(node) THEN features[FeatureAt(node)].dependencies ELSE <<>>

\* has_circular_ref(node, visited, rec_stack) and its loop over the
\* neighbours: the value returned, and the two sets as the call leaves them.
RECURSIVE has_circular_ref(_, _, _)
RECURSIVE VisitNeighbors(_, _, _)
has_circular_ref(node, visited, rec_stack) ==
    LET r == VisitNeighbors(Neighbors(node), visited \cup {node},
                            rec_stack \cup {node})
    IN IF r.found THEN r
       ELSE [found |-> FALSE, visited |-> r.visited,
             rec_stack |-> r.rec_stack \ {node}]

VisitNeighbors(neighbors, visited, rec_stack) ==
    IF neighbors = <<>>
    THEN [found |-> FALSE, visited |-> visited, rec_stack |-> rec_stack]
    ELSE LET neighbor == Head(neighbors) IN
         IF neighbor \notin visited
         THEN LET r == has_circular_ref(neighbor, visited, rec_stack) IN
              IF r.found THEN r
              ELSE VisitNeighbors(Tail(neighbors), r.visited, r.rec_stack)
         ELSE IF neighbor \in rec_stack
              THEN [found |-> TRUE, visited |-> visited, rec_stack |-> rec_stack]
              ELSE VisitNeighbors(Tail(neighbors), visited, rec_stack)

\* The loop over self.features that calls has_circular_ref on every feature
\* not visited yet, each time with a new rec_stack: the names appended to
\* circular_references.
RECURSIVE CircularReferences(_, _)
CircularReferences(keys, visited) ==
    IF keys = <<>> THEN <<>>
    ELSE IF Head(keys) \in visited
         THEN CircularReferences(Tail(keys), visited)
         ELSE LET r == has_circular_ref(Head(keys), visited, {}) IN
              IF r.found
              THEN <<Head(keys)>> \o CircularReferences(Tail(keys), r.visited)
              ELSE CircularReferences(Tail(keys), r.visited)

SeqToSet(s) == {s[i] : i \in 1..Len(s)}

\* The features with no dependencies that no feature depends on.
OrphanedFeatures ==
    LET all_dependencies == UNION {SeqToSet(features[i].dependencies) :
                                      i \in 1..Len(features)}
    IN SelectSeq(FeatureKeys,
                 LAMBDA n : Neighbors(n) = <<>> /\ n \notin all_dependencies)

\* The features reachable from a feature along dependencies in at most n steps.
RECURSIVE Reach(_, _)
Reach(nodes, n) ==
    IF n = 0 THEN nodes
    ELSE Reach(nodes \cup UNION {SeqToSet(Neighbors(m)) : m \in nodes}, n - 1)

\* calculate_depth never returns on a feature that reaches a cycle: the
\* recursion limit raises, and the except branch records the error.
DepthFails(node) ==
    \E m \in Reach({node}, Len(features)) :
        m \in UNION {SeqToSet(Neighbors(k)) : k \in Reach({m}, Len(features))}

RECURSIVE calculate_depth(_)
calculate_depth(node) ==
    IF Neighbors(node) = <<>> THEN 0
    ELSE LET depths == {calculate_depth(d) : d \in SeqToSet(Neighbors(node))}
         IN 1 + CHOOSE x \in depths : \A y \in depths : y <= x

\* The entries of dependency_depth made before calculate_depth fails.
RECURSIVE DependencyDepth(_)
DependencyDepth(keys) ==
    IF keys = <<>> \/ DepthFails(Head(keys)) THEN <<>>
    ELSE <<[name |-> Head(keys), depth |-> calculate_depth(Head(keys))]>>
             \o DependencyDepth(Tail(keys))

\* analyze_feature_dependencies()
analyze_feature_dependencies ==
    /\ ~analysis.valid
    /\ analysis' = [valid |-> TRUE,
                    circular_references |-> CircularReferences(FeatureKeys, {}),
                    orphaned_features |-> OrphanedFeatures,
                    dependency_depth |-> DependencyDepth(FeatureKeys),
                    error |-> \E i \in 1..Len(features) :
                                  DepthFails(features[i].name)]
    /\ UNCHANGED <<features, feature_tree, notFeatures>>

InitFeatures ==
    BridgeInit /\ ChatInit /\ DFMInit /\ FeaturesInit /\ LayoutInit /\ OtherInit

NextFeatures ==
    \/ \E name \in FeatureNames, edges \in EdgeLists :
          create_fillet_feature(name, edges)
    \/ analyze_feature_dependencies

SpecFeatures == InitFeatures /\ [][NextFeatures]_vars

\* ------------------------------------------------------------------------
\* Properties of the feature tree (checked under SpecFeatures)
\* ------------------------------------------------------------------------

\* How often a name stands in feature_tree.
TreeEntries(name) ==
    Cardinality({i \in 1..Len(feature_tree) : feature_tree[i] = name})

\* C27: after any sequence of feature-creation calls feature_tree contains
\* each key of the features map exactly once and no other name; creating a
\* feature under a name that already exists adds no second feature_tree
\* entry.
C27_TreeListsEachFeatureOnce ==
    \A name \in FeatureNames :
        TreeEntries(name) = (IF HasFeature(name) THEN 1 ELSE 0)

\* The fillet named a exists and one of its edges is an edge of feature b.
ReferencesEdgeOf(a, b) ==
    /\ HasFeature(a)
    /\ \E j \in 1..Len(features[FeatureAt(a)].edges) :
          LET edge == features[FeatureAt(a)].edges[j] IN
              Len(edge) > 1 /\ edge[1] = b

\* C8: whenever three fillet features each reference an edge of the next, so
\* that A depends on B, B on C and C on A, analyze_feature_dependencies lists
\* at least one of the three in circular_references.
C8_CycleIsReported ==
    \A a, b, c \in FeatureNames :
        (/\ analysis.valid
         /\ a # b /\ b # c /\ a # c
         /\ ReferencesEdgeOf(a, b) /\ ReferencesEdgeOf(b, c)
         /\ ReferencesEdgeOf(c, a))
            => \E x \in {a, b, c} : x \in SeqToSet(analysis.circular_references)

\* ------------------------------------------------------------------------
\* EnhancedSpatialFramework: objects, clearance constraints, evaluate_layout
\* and optimize_layout (src/freecad_mcp/enhanced_spatial_framework.py)
\* ------------------------------------------------------------------------

ObjectNames == {"o1", "o2"}

\* The positions objects are added at: along the x axis, at working height.
Positions == {<<0, 0, 100>>, <<4, 0, 100>>, <<10, 0, 100>>}

\* The dimensions of every object of the model.
Dimensions == <<2, 2, 2>>

MinDistances == {3, 5}
Priorities == {1, 5}
IterationChoices == {0, 100}

Max2(a, b) == IF a >= b THEN a ELSE b

\* SpatialObject.bounding_box (dimensions are even, so the halves are whole).
bounding_box(obj) ==
    [min_x |-> obj.position[1] - obj.dimensions[1] \div 2,
     max_x |-> obj.position[1] + obj.dimensions[1] \div 2,
     min_y |-> obj.position[2] - obj.dimensions[2] \div 2,
     max_y |-> obj.position[2] + obj.dimensions[2] \div 2,
     min_z |-> obj.position[3] - obj.dimensions[3] \div 2,
     max_z |-> obj.position[3] + obj.dimensions[3] \div 2]

\* math.sqrt on the squares the model produces.
Sqrt(n) == CHOOSE r \in 0..n : r * r = n

\* BoundingBox.distance_to
distance_to(a, b) ==
    LET dx == Max2(0, Max2(a.min_x - b.max_x, b.min_x - a.max_x))
        dy == Max2(0, Max2(a.min_y - b.max_y, b.min_y - a.max_y))
        dz == Max2(0, Max2(a.min_z - b.max_z, b.min_z - a.max_z))
    IN Sqrt(dx * dx + dy * dy + dz * dz)

\* SpatialConstraint._evaluate_clearance
_evaluate_clearance(constraint) ==
    LET obj1 == objects[constraint.objects[1]]
        obj2 == objects[constraint.objects[2]]
        actual_distance == distance_to(bounding_box(obj1), bounding_box(obj2))
        violation == Max2(0, constraint.min_distance - actual_distance)
    IN [satisfied |-> violation = 0, violation |-> violation]

\* The score of one constraint in evaluate_layout.
ConstraintScore(result) ==
    IF result.satisfied THEN 100 ELSE Max2(0, 100 - result.violation * 10)

RECURSIVE TotalScore(_)
TotalScore(cs) ==
    IF cs = <<>> THEN 0
    ELSE ConstraintScore(_evaluate_clearance(Head(cs))) * Head(cs).priority
             + TotalScore(Tail(cs))

RECURSIVE TotalWeight(_)
TotalWeight(cs) ==
    IF cs = <<>> THEN 0 ELSE Head(cs).priority + TotalWeight(Tail(cs))

\* evaluate_layout()["overall_score"] = total_score / max(1, total_weight)
evaluate_layout == Score(TotalScore(constraints), Max2(1, TotalWeight(constraints)))

\* add_object(obj): the object is stored under its name.
add_object(name, position, fixed) ==
    /\ objects' = [n \in DOMAIN objects \cup {name} |->
                      IF n = name
                      THEN [position |-> position, dimensions |-> Dimensions,
                            fixed |-> fixed]
                      ELSE objects[n]]
    /\ optimization_results' = NoOptimization
    /\ UNCHANGED <<constraints, notLayout>>

\* add_constraint(constraint): refused if it names an unknown object.
add_constraint(a, b, min_distance, priority) ==
    /\ Len(constraints) < MaxConstraints
    /\ IF {a, b} \subseteq DOMAIN objects
       THEN constraints' = Append(constraints,
                [constraint_type |-> "clearance", objects |-> <<a, b>>,
                 min_distance |-> min_distance, priority |-> priority])
       ELSE UNCHANGED constraints
    /\ optimization_results' = NoOptimization
    /\ UNCHANGED <<objects, notLayout>>

\* The first pass of the loops of optimize_layout reaches math.random(),
\* which the math module does not have, if there is a pass and an object
\* that is not fixed.
ReachesRandom(max_iterations) ==
    /\ max_iterations > 0
    /\ \E n \in DOMAIN objects : ~objects[n].fixed

\* optimize_layout(max_iterations): initial_score is set first; the
\* AttributeError of math.random() is caught by the outer except, which
\* records the error and leaves final_score as it was initialised; with
\* nothing to move the loop ends without an improvement and the best score,
\* which is the initial one, is the final score.
optimize_layout(max_iterations) ==
    /\ ~optimization_results.valid
    /\ LET initial == evaluate_layout IN
        optimization_results' =
            IF ReachesRandom(max_iterations)
            THEN [valid |-> TRUE, initial_score |-> initial,
                  final_score |-> Score(0, 1), iterations |-> 0,
                  final_positions |-> <<>>, error |-> TRUE]
            ELSE [valid |-> TRUE, initial_score |-> initial,
                  final_score |-> initial, iterations |-> 0,
                  final_positions |-> [n \in DOMAIN objects |-> objects[n].position],
                  error |-> FALSE]
    /\ UNCHANGED <<objects, constraints, notLayout>>

InitLayout ==
    BridgeInit /\ ChatInit /\ DFMInit /\ FeaturesInit /\ LayoutInit /\ OtherInit

NextLayout ==
    \/ \E name \in ObjectNames, position \in Positions, fixed \in BOOLEAN :
          add_object(name, position, fixed)
    \/ \E a, b \in ObjectNames, d \in MinDistances, p \in Priorities :
          add_constraint(a, b, d, p)
    \/ \E max_iterations \in IterationChoices : optimize_layout(max_iterations)

SpecLayout == InitLayout /\ [][NextLayout]_vars

\* ------------------------------------------------------------------------
\* Properties of optimize_layout (checked under SpecLayout)
\* ------------------------------------------------------------------------

\* a >= b for two scores.
ScoreGeq(a, b) == a.num * b.den >= b.num * a.den

\* C9: for any objects, fixed or movable, and any constraints, the
\* final_score of the result of optimize_layout is greater than or equal to
\* its initial_score.
C9_FinalScoreNotBelowInitial ==
    optimization_results.valid =>
        ScoreGeq(optimization_results.final_score,
                 optimization_results.initial_score)

\* ------------------------------------------------------------------------
\* DesignValidationSystem.validate_design
\* (src/freecad_mcp/design_validation_system.py)
\* ------------------------------------------------------------------------

\* ValidationSeverity
Severities == {"info", "warning", "error", "critical"}

\* What the validators report on one design, as the number of issues of each
\* severity in all_issues.
IssueCounts == [Severities -> 0..MaxPerSeverity]

critical_weight == 50
error_weight == 25
warning_weight == 10
info_weight == 1

\* The summed severity penalty.
Penalty(severity_counts) ==
    severity_counts["critical"] * critical_weight
        + severity_counts["error"] * error_weight
        + severity_counts["warning"] * warning_weight
        + severity_counts["info"] * info_weight

\* A score that is not clamped.
overall_score_Unclamped(severity_counts) == 100 - Penalty(severity_counts)

\* overall_score = max(0, 100 - penalty)
overall_score(severity_counts) == Max2(0, 100 - Penalty(severity_counts))

\* validate_design(design_data, validation_options): either the validators
\* return their issues and the metrics are computed, or something inside the
\* try block raises (design_data that is not a dict, say) and the except
\* branch builds the result with overall_score 0.0 and no counts.
validate_design(severity_counts, raises) ==
    /\ validation_result' =
          IF raises
          THEN [valid |-> TRUE, overall_score |-> 0, total_issues |-> 0,
                issues_by_severity |-> EmptyDict, failed |-> TRUE]
          ELSE [valid |-> TRUE,
                overall_score |-> overall_score(severity_counts),
                total_issues |-> severity_counts["critical"]
                                   + severity_counts["error"]
                                   + severity_counts["warning"]
                                   + severity_counts["info"],
                issues_by_severity |-> severity_counts, failed |-> FALSE]
    /\ UNCHANGED notValidation

InitValidation ==
    BridgeInit /\ ChatInit /\ DFMInit /\ FeaturesInit /\ LayoutInit /\ OtherInit

NextValidation ==
    \E severity_counts \in IssueCounts, raises \in BOOLEAN :
        validate_design(severity_counts, raises)

SpecValidation == InitValidation /\ [][NextValidation]_vars

\* ------------------------------------------------------------------------
\* Properties of validate_design (checked under SpecValidation)
\* ------------------------------------------------------------------------

\* C11: for every design_data the overall_score validate_design returns is
\* never negative, also when the summed severity penalty (critical 50,
\* error 25, warning 10, info 1 per issue) exceeds 100.
C11_OverallScoreNeverNegative ==
    validation_result.valid => validation_result.overall_score >= 0

\* C11 witness: a result whose issues sum to a penalty above 100.
C11_Witness ==
    /\ validation_result.valid /\ ~validation_result.failed
    /\ Penalty(validation_result.issues_by_severity) > 100
    /\ validation_result.overall_score = 0

\* ------------------------------------------------------------------------
\* create_object, edit_object, delete_object (core/rpc_handler.py), each
\* with the closure it hands to the Task Bridge
\* ------------------------------------------------------------------------

\* The document names a caller passes: the open document and an unknown one.
DocArgs == {"Part", "Unknown"}
ObjectArgs == {"a", "b"}
\* params["Type"]: a type of the host, a type the host does not know, no type.
TypeArgs == {"Part::Box", "Bogus::Type", "None"}
\* The properties of an edit: plain values, or References naming an object
\* that does not exist.
PropertyArgs == {"plain", "bad_references"}

\* The name doc.addObject gives: the name asked for, or the name with a suffix.
Suffixed(name) == IF name = "a" THEN "a001" ELSE "b001"
AddedName(name) == IF name \in cad_objects THEN Suffixed(name) ELSE name

\* What "except Exception as e: return str(e)" hands back as the status.
OnRaise(message) == PyStr(message)

\* {"success": status, ...} as one of the methods returns it; "failed" notes
\* that the operation raised or did not find its document or object.
ObjectResult(op, status, failed) ==
    [op |-> op, success |-> status, failed |-> failed]

\* create_object(doc_name, params_json) with _create_object_gui
create_object(doc_name, name, type) ==
    /\ IF doc_name # "Part"
       THEN /\ object_result' = ObjectResult("create", PyBool(FALSE), TRUE)
            /\ UNCHANGED cad_objects
       ELSE IF type # "Part::Box"
       THEN /\ object_result' =
                  ObjectResult("create", OnRaise("creation error"), TRUE)
            /\ UNCHANGED cad_objects
       ELSE /\ AddedName(name) \notin cad_objects
            /\ cad_objects' = cad_objects \cup {AddedName(name)}
            /\ object_result' = ObjectResult("create", PyBool(TRUE), FALSE)
    /\ UNCHANGED notObjects

\* edit_object(doc_name, obj_name, params_json) with _edit_object_gui
edit_object(doc_name, obj_name, properties) ==
    /\ object_result' =
          IF doc_name # "Part" \/ obj_name \notin cad_objects
          THEN ObjectResult("edit", PyBool(FALSE), TRUE)
          ELSE IF properties = "bad_references"
          THEN ObjectResult("edit", OnRaise("Referenced object not found."), TRUE)
          ELSE ObjectResult("edit", PyBool(TRUE), FALSE)
    /\ UNCHANGED <<cad_objects, notObjects>>

\* delete_object(doc_name, obj_name) with _delete_object_gui: removeObject
\* raises on a name the document does not have.
delete_object(doc_name, obj_name) ==
    /\ IF doc_name # "Part"
       THEN /\ object_result' = ObjectResult("delete", PyBool(FALSE), TRUE)
            /\ UNCHANGED cad_objects
       ELSE IF obj_name \notin cad_objects
       THEN /\ object_result' =
                  ObjectResult("delete", OnRaise("No document object found"), TRUE)
            /\ UNCHANGED cad_objects
       ELSE /\ cad_objects' = cad_objects \ {obj_name}
            /\ object_result' = ObjectResult("delete", PyBool(TRUE), FALSE)
    /\ UNCHANGED notObjects

InitObjects ==
    BridgeInit /\ ChatInit /\ DFMInit /\ FeaturesInit /\ LayoutInit /\ OtherInit

NextObjects ==
    \/ \E d \in DocArgs, n \in ObjectArgs, t \in TypeArgs : create_object(d, n, t)
    \/ \E d \in DocArgs, n \in ObjectArgs \cup {Suffixed(m) : m \in ObjectArgs},
          p \in PropertyArgs : edit_object(d, n, p)
    \/ \E d \in DocArgs, n \in ObjectArgs \cup {Suffixed(m) : m \in ObjectArgs} :
          delete_object(d, n)

SpecObjects == InitObjects /\ [][NextObjects]_vars

\* ------------------------------------------------------------------------
\* Properties of the object methods (checked under SpecObjects)
\* ------------------------------------------------------------------------

\* C13: whenever the object operation behind create_object, edit_object or
\* delete_object raised, or its document or object was not found, the success
\* field of the record returned is false, never a truthy value.
C13_FailedOperationReportsFalse ==
    object_result.failed =>
        (object_result.success = PyBool(FALSE) /\ ~Truthy(object_result.success))

\* ------------------------------------------------------------------------
\* The MCP entry bootstrap (mcp-server.py)
\* ------------------------------------------------------------------------

ImportOutcomes == {"ok", "ImportError"}
\* printing_guidelines(): a text with "SLA", a text without, or no module.
PromptOutcomes == {"SLA", "other", "ImportError"}
\* How the server's main() ends when it is called.
ServerOutcomes == {"returns", "ImportError", "raises", "KeyboardInterrupt"}

BootEnvs ==
    {BootEnv(i, p, f, m) : i \in ImportOutcomes, p \in PromptOutcomes,
                           f \in BOOLEAN, m \in ServerOutcomes}

\* The process starts on some machine.
BootStart ==
    /\ boot_env \in BootEnvs
    /\ boot_pc = "start"
    /\ main_return = 0
    /\ exit_status = 0

\* main(): "from src.freecad_mcp.server import main as server_main"
main_import ==
    /\ boot_pc = "start"
    /\ boot_pc' = IF boot_env.import = "ok" THEN "verify" ELSE "alternative"
    /\ UNCHANGED <<boot_env, main_return, exit_status, notBoot>>

\* main(): the prompts are verified; a missing prompts module is a warning.
main_verify_prompts ==
    /\ boot_pc = "verify"
    /\ boot_pc' = "server"
    /\ UNCHANGED <<boot_env, main_return, exit_status, notBoot>>

\* Where main goes when the server's main() has ended as outcome says, with
\* the ImportError handler still around the call (in_try) or not.
AfterServer(outcome, in_try) ==
    CASE outcome = "returns" -> "returned"
      [] outcome = "ImportError" -> IF in_try THEN "alternative" ELSE "raised"
      [] outcome = "raises" -> "raised"
      [] outcome = "KeyboardInterrupt" -> "interrupted"

\* main(): server_main() inside the try block, then "return 0".
main_run_server ==
    /\ boot_pc = "server"
    /\ boot_pc' = AfterServer(boot_env.server_main, TRUE)
    /\ main_return' = 0
    /\ UNCHANGED <<boot_env, exit_status, notBoot>>

\* main(): the except ImportError branch: server.py is loaded from its path
\* and its main() is called, or, if the file does not exist, "return 1".
main_alternative ==
    /\ boot_pc = "alternative"
    /\ IF boot_env.server_file
       THEN /\ boot_pc' = AfterServer(boot_env.server_main, FALSE)
            /\ main_return' = 0
       ELSE /\ boot_pc' = "returned"
            /\ main_return' = 1
    /\ UNCHANGED <<boot_env, exit_status, notBoot>>

\* The status of a process whose "__main__" block calls main() as a
\* statement and then ends: the value returned is not used.
StatusAfterMain(return_value) == 0

\* The "__main__" block: main() returned (the script ends), was interrupted
\* (logged, the script ends) or raised (sys.exit(1)).
module_exit ==
    /\ boot_pc \in {"returned", "interrupted", "raised"}
    /\ exit_status' = CASE boot_pc = "returned" -> StatusAfterMain(main_return)
                        [] boot_pc = "interrupted" -> 0
                        [] boot_pc = "raised" -> 1
    /\ boot_pc' = "exited"
    /\ UNCHANGED <<boot_env, main_return, notBoot>>

InitBoot ==
    /\ BridgeInit /\ ChatInit /\ DFMInit /\ FeaturesInit /\ LayoutInit
    /\ ValidationInit /\ ObjectsInit /\ BootStart /\ ToleranceInit
    /\ ExtraInit

NextBoot ==
    \/ main_import
    \/ main_verify_prompts
    \/ main_run_server
    \/ main_alternative
    \/ module_exit

SpecBoot == InitBoot /\ [][NextBoot]_vars

\* ------------------------------------------------------------------------
\* Properties of the bootstrap (checked under SpecBoot)
\* ------------------------------------------------------------------------

\* C18: when the bootstrap cannot import the server module and the server
\* file does not exist at the expected path, the process ends with a
\* non-zero exit status.
C18_MissingServerExitsNonZero ==
    (/\ boot_pc = "exited"
     /\ boot_env.import = "ImportError"
     /\ ~boot_env.server_file)
        => exit_status # 0

\* ------------------------------------------------------------------------
\* ToleranceCalculator.calculate_tolerance
\* (src/freecad_mcp/manufacturing_framework.py)
\* ------------------------------------------------------------------------

\* ToleranceGrade: the value of each member, in tenths.
ToleranceGrade ==
    [IT01 |-> 3, IT0 |-> 5, IT1 |-> 8, IT2 |-> 12, IT3 |-> 20, IT4 |-> 30,
     IT5 |-> 40, IT6 |-> 60, IT7 |-> 100, IT8 |-> 140, IT9 |-> 250,
     IT10 |-> 400, IT11 |-> 600, IT12 |-> 1000]
Grades == DOMAIN ToleranceGrade

\* The upper limits of the size brackets of calculate_tolerance; the last
\* bracket is everything above 250.
BracketLimits == <<3, 6, 10, 18, 30, 50, 80, 120, 180, 250>>

\* The branch of the if/elif chain a nominal size takes.
Bracket(nominal_size) ==
    IF nominal_size > 250 THEN 11
    ELSE CHOOSE b \in 1..10 :
            /\ nominal_size <= BracketLimits[b]
            /\ \A c \in 1..(b - 1) : nominal_size > BracketLimits[c]

\* The nominal sizes of the model, in mm: the limit of every bracket, a size
\* inside every bracket, and sizes above the last limit.
NominalSizes ==
    {1, 3, 4, 6, 8, 10, 14, 18, 24, 30, 40, 50, 65, 80, 100, 120, 150, 180,
     215, 250, 251, 300}

\* nominal_size ** (1/3), in hundredths, rounded down.
CubeRoot(nominal_size) ==
    CHOOSE r \in 0..700 :
        /\ r * r * r <= nominal_size * 1000000
        /\ (r + 1) * (r + 1) * (r + 1) > nominal_size * 1000000

\* i = 0.45 * (nominal_size ** (1/3)) + 0.001 * nominal_size, the same in
\* every branch, in units of 0.0001.
ToleranceUnit(nominal_size) == 45 * CubeRoot(nominal_size) + 10 * nominal_size

\* A tolerance that leaves the grade out.
calculate_tolerance_Ungraded(nominal_size, grade) ==
    ToleranceUnit(nominal_size)

\* calculate_tolerance(nominal_size, grade) = i * grade.value / 1000, in
\* units of 0.00000001 mm.
calculate_tolerance(nominal_size, grade) ==
    ToleranceUnit(nominal_size) * ToleranceGrade[grade]

\* One call of calculate_tolerance.
tolerance_call(nominal_size, grade) ==
    /\ tolerance_result' =
          [valid |-> TRUE, nominal_size |-> nominal_size, grade |-> grade,
           value |-> calculate_tolerance(nominal_size, grade)]
    /\ UNCHANGED notTolerance

InitTolerance ==
    BridgeInit /\ ChatInit /\ DFMInit /\ FeaturesInit /\ LayoutInit /\ OtherInit

NextTolerance ==
    \E nominal_size \in NominalSizes, grade \in Grades :
        tolerance_call(nominal_size, grade)

SpecTolerance == InitTolerance /\ [][NextTolerance]_vars

\* ------------------------------------------------------------------------
\* Properties of calculate_tolerance (checked under SpecTolerance)
\* ------------------------------------------------------------------------

\* C16: for every nominal size in every size bracket and every pair of IT
\* grades, calculate_tolerance returns a strictly larger value for the grade
\* with the numerically larger constant: the value returned for a grade is
\* below the value for every grade with a larger constant and above the
\* value for every grade with a smaller one, at the same nominal size.
C16_ToleranceGrowsWithGrade ==
    tolerance_result.valid =>
        \A other \in Grades :
            LET mine == tolerance_result.value
                theirs == calculate_tolerance(tolerance_result.nominal_size, other)
            IN /\ ToleranceGrade[other] > ToleranceGrade[tolerance_result.grade]
                     => theirs > mine
               /\ ToleranceGrade[other] < ToleranceGrade[tolerance_result.grade]
                     => theirs < mine

\* C16 witness: a call for IT7 with a size of the last bracket, whose value
\* lies between those of IT5 and IT10.
C16_Witness ==
    /\ tolerance_result.valid
    /\ Bracket(tolerance_result.nominal_size) = 11
    /\ tolerance_result.grade = "IT7"
    /\ calculate_tolerance(tolerance_result.nominal_size, "IT5")
           < tolerance_result.value
    /\ tolerance_result.value
           < calculate_tolerance(tolerance_result.nominal_size, "IT10")

=============================================================================
